---- MODULE Spec2Model ----
(***************************************************************************)
(* gitsplit: surgical patch generation (patch.py), the executor that       *)
(* applies the patches (phases/execution.py), the Golden Rule verifier     *)
(* and failure classifier (verification.py) and the split engine with its  *)
(* session phase machine (engine.py).                                      *)
(*                                                                         *)
(* The specifications share the variables of this module:                  *)
(*   SpecGen     one hunk, one call of _filter_hunk_for_ranges and         *)
(*               _generate_hunk_patch                                      *)
(*   SpecExec    one file of a branch diff, Executor._apply_intent_patches *)
(*               applied intent after intent to the working tree           *)
(*   SpecDiag    Verifier._find_differences / diagnose_failure             *)
(*   Spec        SplitEngine.run with Executor.execute                     *)
(*   SpecCall    Executor.execute, one intent of the plan                  *)
(*   SpecRun     SplitEngine.run, the loop over the session phases         *)
(*   SpecResume  SplitEngine.run entered with a saved session              *)
(*   SpecParse   PatchGenerator.parse_diff on a diff text                  *)
(*   SpecVerify  Verifier.verify_split                                     *)
(*   SpecSession SplitSession.to_dict / from_dict                          *)
(*   SpecFix     IntentDiscovery._fix_overlapping_ranges                   *)
(***************************************************************************)
EXTENDS Integers, Naturals, Sequences, FiniteSets, TLC

VARIABLES
    (* ---- patch.py: one hunk and one filter/synthesis call ---- *)
    hunk,           \* the DiffHunk under test (lines numbered)
    line_ranges,    \* the list of (start, end) tuples of the call
    filtered,       \* result of _filter_hunk_for_ranges
    hunk_patch,     \* result of _generate_hunk_patch (<<>> is None)
    gpc,            \* "input" before the call, "done" after it
    (* ---- execution.py: one file of the branch diff under the Executor ---- *)
    file_diff,      \* the parsed FileDiff of the path (diffs_by_path[path])
    source_file,    \* content of the path on the original (source) branch
    work_file,      \* content of the path in the working tree
    last_fc,        \* the FileChange the loop body ran last (<<>>: none yet)
    outcome,        \* what the loop body did with it
    covered,        \* new-file lines named by the ranges applied so far
    part_ok         \* so far every FileChange was a single range of the diff

genVars == <<hunk, line_ranges, filtered, hunk_patch, gpc>>

execVars == <<file_diff, source_file, work_file, last_fc, outcome, covered, part_ok>>

VARIABLES
    (* ---- verification.py: one call of diagnose_failure ---- *)
    verification_result,  \* the VerificationResult handed to diagnose_failure
    diagnosis             \* the dict it returned (<<>>: not called yet)

diagVars == <<verification_result, diagnosis>>

VARIABLES
    (* ---- engine.py: the Session, the AI client and the run loop ---- *)
    phase,            \* session.phase
    current_attempt,  \* session.current_attempt
    backtracks,       \* session.backtracks
    dry_run,          \* session.dry_run
    auto_mode,        \* session.auto_mode
    change_plan,      \* branch names of plan.execution_order (<<>>: none)
    current_tier,     \* ai.current_tier
    pc,               \* "run" in the loop, "confirm" after discovery,
                      \* "execute" inside Executor.execute, "done" returned
    ret,              \* what run returned ("none" while it runs)
    (* ---- execution.py: Executor.execute and the repository ---- *)
    step,             \* index of the intent execute is at
    previous_branch,  \* the branch the next intent branch is created from
    created_branches, \* the local list created_branches of execute
    branches,         \* content of each branch name ("absent": no such branch)
    head,             \* the branch that is checked out
    (* ---- what happened so far ---- *)
    executions,       \* calls of _run_execution
    compared,         \* the last result came from comparing the two hashes
    transitions,      \* the changes <<from, to>> of session.phase
    handled,          \* failed verifications that did not exhaust the attempts
    exception_seen,   \* the except clause of run caught an exception
    aborted,          \* the user answered "n"
    foreign_deleted   \* the branches of the repository (not created by the
                      \* run) that were deleted

sessionVars == <<phase, current_attempt, backtracks, dry_run, auto_mode,
                 change_plan, current_tier, pc, ret>>

repoVars == <<step, previous_branch, created_branches, branches, head>>

historyVars == <<executions, compared, transitions, handled, exception_seen,
                 aborted, foreign_deleted>>

engVars == <<sessionVars, repoVars, historyVars>>

VARIABLES
    (* ---- execution.py: one call of Executor.execute, step by step ---- *)
    xpc,              \* where the call is: "create", "apply", "build" in the
                      \* loop, "verify" after it, "returned" or "raised"
    dirty,            \* the working tree has changes that are not committed
    made,             \* the branches create_branch made in this call
    creations,        \* one record for each create_branch, in order
    patched           \* intents whose _apply_intent_patches has returned

callVars == <<xpc, dirty, made, creations, patched>>

VARIABLES
    (* ---- engine.py: the run loop and what it asks of its collaborators ---- *)
    model_override,   \* ai.model_override is set (the operator pinned a model)
    weak_call,        \* discover or plan returned from a tier1 call made
                      \* with current_attempt >= 3
    cancel,           \* "none"; "requested" once the user aborted; "ignored"
                      \* once a phase ran after that
    budget,           \* "ok"; "refused" once _check_budget refused a call;
                      \* "retried" once a phase ran after that
    saved_phase,      \* phase of the last save_session ("none": never saved)
    prev_phase,       \* session.phase before its last change ("none")
    rediscovery,      \* session.discovered_intents as rediscover set them:
                      \* "none", "pending" until they are confirmed, "used"
                      \* once confirmed, "replaced" once discover overwrote
                      \* them before that
    iteration         \* parity of the iterations of the while loop of run
                      \* that entered no phase

runVars == <<model_override, weak_call, cancel, budget, saved_phase,
             prev_phase, rediscovery, iteration>>

VARIABLES
    (* ---- verification.py: one call of Verifier.verify_split ---- *)
    trees,            \* `git ls-tree -r` of the two refs (<<>>: no such ref)
    vresult,          \* what verify_split returned (<<>>: not called yet)
    (* ---- session.py: a Session and what comes back from its saved form ---- *)
    session,          \* the Session that is serialized (<<>>: none)
    restored          \* deserialize_session(serialize_session(session))

ioVars == <<trees, vresult, session, restored>>

VARIABLES
    (* ---- patch.py: one call of PatchGenerator.parse_diff ---- *)
    diff_lines,       \* the lines diff_text.split("\n") (<<>>: none)
    parsed,           \* the list of FileDiff it returned
    (* ---- discovery.py: one call of _fix_overlapping_ranges ---- *)
    raw_intents,      \* the intents as _parse_intents built them
    fixed_intents     \* the same list after the call (<<>>: not called yet)

parseVars == <<diff_lines, parsed>>

fixVars == <<raw_intents, fixed_intents>>

vars == <<genVars, execVars, diagVars, engVars, callVars, runVars, ioVars,
          parseVars, fixVars>>

(***************************************************************************)
(* Bounds                                                                  *)
(***************************************************************************)
MaxLines == 5       \* lines of the hunk under test
MaxFileLines == 3   \* lines of the edit script of the file under the Executor
MaxDiffs == 6       \* difference records of a VerificationResult

(***************************************************************************)
(* Python values                                                           *)
(***************************************************************************)
\* None for the optional line numbers of a DiffLine
None == -1

\* Python truthiness of an int | None value
Truthy(x) == x # None /\ x # 0

Max(a, b) == IF a >= b THEN a ELSE b
Min(a, b) == IF a <= b THEN a ELSE b

\* the last n elements of a list: s[-n:]
LastN(s, n) == SubSeq(s, Max(1, Len(s) - n + 1), Len(s))

\* x in list (by value, as Python's `in` on dataclass instances)
InList(x, s) == \E i \in 1..Len(s) : s[i] = x

(***************************************************************************)
(* patch.py: DiffLine, DiffHunk                                            *)
(***************************************************************************)
DiffLine(content, line_type) ==
    [content |-> content, line_type |-> line_type,
     old_line_num |-> None, new_line_num |-> None]

is_addition(l) == l.line_type = "+"
is_deletion(l) == l.line_type = "-"
is_context(l)  == l.line_type = " "

\* a hunk header line "@@ -old_start,old_count +new_start,new_count @@"
HunkHeader(old_start, old_count, new_start, new_count) ==
    [tag |-> "@@", old_start |-> old_start, old_count |-> old_count,
     new_start |-> new_start, new_count |-> new_count]

DiffHunk(old_start, old_count, new_start, new_count, lines) ==
    [old_start |-> old_start, old_count |-> old_count,
     new_start |-> new_start, new_count |-> new_count, lines |-> lines,
     header |-> HunkHeader(old_start, old_count, new_start, new_count)]

\* PatchGenerator._assign_line_numbers: the loop over hunk.lines, from
\* index i with the two running counters
RECURSIVE AssignFrom(_, _, _, _)
AssignFrom(lines, i, old_num, new_num) ==
    IF i > Len(lines) THEN lines
    ELSE LET l == lines[i] IN
         IF is_context(l) THEN
            AssignFrom([lines EXCEPT ![i].old_line_num = old_num,
                                     ![i].new_line_num = new_num],
                       i + 1, old_num + 1, new_num + 1)
         ELSE IF is_deletion(l) THEN
            AssignFrom([lines EXCEPT ![i].old_line_num = old_num],
                       i + 1, old_num + 1, new_num)
         ELSE IF is_addition(l) THEN
            AssignFrom([lines EXCEPT ![i].new_line_num = new_num],
                       i + 1, old_num, new_num + 1)
         ELSE AssignFrom(lines, i + 1, old_num, new_num)

\* mutant: both counters advance on every line
assign_line_numbers_lockstep(h) ==
    [h EXCEPT !.lines =
        [i \in 1..Len(h.lines) |->
            [h.lines[i] EXCEPT
                !.old_line_num = IF is_addition(h.lines[i]) THEN None
                                 ELSE h.old_start + i - 1,
                !.new_line_num = IF is_deletion(h.lines[i]) THEN None
                                 ELSE h.new_start + i - 1]]]

assign_line_numbers(h) ==
    [h EXCEPT !.lines = AssignFrom(h.lines, 1, h.old_start, h.new_start)]

(***************************************************************************)
(* patch.py: PatchGenerator._filter_hunk_for_ranges                        *)
(***************************************************************************)
\* first loop: virtual new line numbers; a deletion takes the last new
\* number seen (hunk.new_start before any)
RECURSIVE VirtualFrom(_, _, _, _)
VirtualFrom(lines, i, last_new_num, acc) ==
    IF i > Len(lines) THEN acc
    ELSE IF lines[i].new_line_num # None
         THEN VirtualFrom(lines, i + 1, lines[i].new_line_num,
                          Append(acc, lines[i].new_line_num))
         ELSE VirtualFrom(lines, i + 1, last_new_num,
                          Append(acc, last_new_num))

\* mutant: the running number starts from the old side of the header
virtual_new_nums_from_old_start(h) == VirtualFrom(h.lines, 1, h.old_start, <<>>)

virtual_new_nums(h) == VirtualFrom(h.lines, 1, h.new_start, <<>>)

\* second loop: the indices whose virtual number lies in some range
in_range_indices(h, ranges) ==
    LET v == virtual_new_nums(h) IN
    {i \in 1..Len(h.lines) :
        v[i] # None /\ \E k \in 1..Len(ranges) :
                          ranges[k][1] <= v[i] /\ v[i] <= ranges[k][2]}

\* for ctx in context_before[-3:]: if ctx not in result: result.append(ctx)
RECURSIVE FlushContext(_, _)
FlushContext(result, ctxs) ==
    IF ctxs = <<>> THEN result
    ELSE FlushContext(IF InList(Head(ctxs), result) THEN result
                      ELSE Append(result, Head(ctxs)),
                      Tail(ctxs))

\* mutant: every context line held back is emitted
padding_all(context_before) == context_before

\* context_before[-3:]
padding(context_before) == LastN(context_before, 3)

\* third loop ("second pass"); last_included_idx is kept 0-based as in the
\* source (-1 before any line is included), i is the 1-based list index
RECURSIVE BuildFrom(_, _, _, _, _, _)
BuildFrom(lines, inr, i, result, context_before, last_included_idx) ==
    IF i > Len(lines) THEN result
    ELSE LET l == lines[i] IN
         IF i \in inr THEN
            LET r1 == FlushContext(result, padding(context_before))
                r2 == Append(r1, l)
            IN  BuildFrom(lines, inr, i + 1, r2, <<>>, Len(r2) - 1)
         ELSE IF is_context(l) THEN
            IF result # <<>> /\ Len(result) - 1 - last_included_idx < 3
            THEN BuildFrom(lines, inr, i + 1, Append(result, l),
                           context_before, last_included_idx)
            ELSE BuildFrom(lines, inr, i + 1, result,
                           Append(context_before, l), last_included_idx)
         ELSE BuildFrom(lines, inr, i + 1, result, context_before,
                        last_included_idx)

filter_hunk_for_ranges(h, ranges) ==
    LET inr == in_range_indices(h, ranges) IN
    IF inr = {} THEN <<>>
    ELSE BuildFrom(h.lines, inr, 1, <<>>, <<>>, -1)

(***************************************************************************)
(* patch.py: PatchGenerator._generate_hunk_patch                           *)
(***************************************************************************)
\* sum(1 for l in filtered_lines if l.is_context or l.is_deletion)
RECURSIVE CountOld(_)
CountOld(ls) ==
    IF ls = <<>> THEN 0
    ELSE (IF is_context(Head(ls)) \/ is_deletion(Head(ls)) THEN 1 ELSE 0)
         + CountOld(Tail(ls))

\* sum(1 for l in filtered_lines if l.is_context or l.is_addition)
RECURSIVE CountNew(_)
CountNew(ls) ==
    IF ls = <<>> THEN 0
    ELSE (IF is_context(Head(ls)) \/ is_addition(Head(ls)) THEN 1 ELSE 0)
         + CountNew(Tail(ls))

\* index of the first context line with a truthy old and new number (0: none)
FirstContextIdx(ls) ==
    LET S == {i \in 1..Len(ls) : is_context(ls[i]) /\ Truthy(ls[i].old_line_num)
                                  /\ Truthy(ls[i].new_line_num)}
    IN  IF S = {} THEN 0 ELSE CHOOSE i \in S : \A j \in S : i <= j

\* first truthy old_line_num of the list (None: none)
first_old(ls) ==
    LET S == {i \in 1..Len(ls) : Truthy(ls[i].old_line_num)}
    IN  IF S = {} THEN None
        ELSE ls[CHOOSE i \in S : \A j \in S : i <= j].old_line_num

\* first truthy new_line_num of the list (None: none)
first_new(ls) ==
    LET S == {i \in 1..Len(ls) : Truthy(ls[i].new_line_num)}
    IN  IF S = {} THEN None
        ELSE ls[CHOOSE i \in S : \A j \in S : i <= j].new_line_num

\* mutant: the starts are the first old and the first new number of the
\* list, the start of the originating hunk where a side has none
hunk_starts_unrelated(original_hunk, filtered_lines) ==
    <<IF first_old(filtered_lines) # None THEN first_old(filtered_lines)
      ELSE original_hunk.old_start,
      IF first_new(filtered_lines) # None THEN first_new(filtered_lines)
      ELSE original_hunk.new_start>>

\* the pair <<old_start, new_start>> of the header
hunk_starts(original_hunk, filtered_lines) ==
    LET c == FirstContextIdx(filtered_lines) IN
    IF c # 0
    THEN <<filtered_lines[c].old_line_num, filtered_lines[c].new_line_num>>
    ELSE LET fo == first_old(filtered_lines)
             fn == first_new(filtered_lines)
             offset == original_hunk.new_start - original_hunk.old_start
         IN  IF fo # None /\ fn = None THEN <<fo, fo + offset>>
             ELSE IF fn # None /\ fo = None THEN <<fn - offset, fn>>
             ELSE IF fo # None /\ fn # None THEN <<fo, fn>>
             ELSE <<original_hunk.old_start, original_hunk.new_start>>

\* mutant: the count is copied from the originating hunk
hunk_old_count_copied(original_hunk, filtered_lines) == original_hunk.old_count

\* the old_count of the header
hunk_old_count(original_hunk, filtered_lines) == CountOld(filtered_lines)

\* the new_count of the header
hunk_new_count(original_hunk, filtered_lines) == CountNew(filtered_lines)

\* one emitted body line: prefix and content
PatchLine(l) ==
    [tag |-> IF is_addition(l) THEN "+" ELSE IF is_deletion(l) THEN "-" ELSE " ",
     content |-> l.content]

\* the list of strings returned: the header line, then the body lines;
\* <<>> stands for None
generate_hunk_patch(original_hunk, filtered_lines) ==
    IF filtered_lines = <<>> THEN <<>>
    ELSE LET st == hunk_starts(original_hunk, filtered_lines) IN
         <<HunkHeader(st[1], hunk_old_count(original_hunk, filtered_lines),
                      st[2], hunk_new_count(original_hunk, filtered_lines))>>
         \o [i \in 1..Len(filtered_lines) |-> PatchLine(filtered_lines[i])]

(***************************************************************************)
(* SpecGen: the inputs of one filter/synthesis call                        *)
(***************************************************************************)
LineTypes == {" ", "+", "-"}

\* sequences of line types of length 1..n
RECURSIVE SeqsUpTo(_, _)
SeqsUpTo(S, n) ==
    IF n = 0 THEN {<<>>}
    ELSE LET P == SeqsUpTo(S, n - 1) IN
         P \cup {Append(p, x) : p \in {q \in P : Len(q) = n - 1}, x \in S}

\* the header starts a hunk of `git diff` can carry: at the top of the file,
\* or further down after earlier hunks shifted the new file by one line
HunkStarts == {<<1, 1>>, <<11, 12>>}

\* a parsed hunk whose first old/new line is st: body line i has content i;
\* counts and starts as git writes them (a side with count 0 is headed by
\* the line before it)
ParsedHunk(types, st) ==
    LET ls == [i \in 1..Len(types) |-> DiffLine(i, types[i])]
        oc == CountOld(ls)
        nc == CountNew(ls)
    IN  assign_line_numbers(
            DiffHunk(IF oc = 0 THEN st[1] - 1 ELSE st[1], oc,
                     IF nc = 0 THEN st[2] - 1 ELSE st[2], nc, ls))

\* ranges (start, end) with start <= end over the new-file lines lo..hi
Ranges(lo, hi) == {r \in (lo..hi) \X (lo..hi) : r[1] <= r[2]}

\* lists of one range, or of two disjoint ranges in ascending order
RangeLists(lo, hi) ==
    {<<r>> : r \in Ranges(lo, hi)} \cup
    {p \in Ranges(lo, hi) \X Ranges(lo, hi) : p[1][2] < p[2][1]}

GenInputs ==
    {ParsedHunk(t, st) : t \in SeqsUpTo(LineTypes, MaxLines) \ {<<>>},
                         st \in HunkStarts}

\* the variables of the other specifications, parked
GenIdle ==
    /\ hunk = <<>> /\ line_ranges = <<>> /\ filtered = <<>>
    /\ hunk_patch = <<>> /\ gpc = "idle"

ExecIdle ==
    /\ file_diff = <<>> /\ source_file = <<>> /\ work_file = <<>>
    /\ last_fc = <<>> /\ outcome = "idle" /\ covered = {} /\ part_ok = FALSE

DiagIdle == verification_result = <<>> /\ diagnosis = <<>>

EngIdle ==
    /\ phase = "idle" /\ current_attempt = 0 /\ backtracks = <<>>
    /\ dry_run = FALSE /\ auto_mode = FALSE /\ change_plan = <<>>
    /\ current_tier = 0 /\ pc = "idle" /\ ret = "none"
    /\ step = 0 /\ previous_branch = "" /\ created_branches = <<>>
    /\ branches = <<>> /\ head = ""
    /\ executions = 0 /\ compared = FALSE /\ transitions = {}
    /\ handled = 0 /\ exception_seen = FALSE /\ aborted = FALSE
    /\ foreign_deleted = {}

CallIdle ==
    /\ xpc = "idle" /\ dirty = FALSE /\ made = {} /\ creations = <<>>
    /\ patched = 0

RunIdle ==
    /\ model_override = FALSE /\ weak_call = FALSE /\ cancel = "none"
    /\ budget = "ok" /\ saved_phase = "none" /\ prev_phase = "none"
    /\ rediscovery = "none" /\ iteration = 0

IoIdle ==
    /\ trees = <<>> /\ vresult = <<>> /\ session = <<>> /\ restored = <<>>

ParseIdle == diff_lines = <<>> /\ parsed = <<>>

FixIdle == raw_intents = <<>> /\ fixed_intents = <<>>

InitGen ==
    /\ ExecIdle /\ DiagIdle /\ EngIdle /\ CallIdle /\ RunIdle /\ IoIdle
    /\ ParseIdle /\ FixIdle
    /\ hunk \in GenInputs
    /\ line_ranges = <<>>
    /\ filtered = <<>>
    /\ hunk_patch = <<>>
    /\ gpc = "input"

\* one iteration of the loop of generate_patch_for_lines on the hunk, and
\* _generate_hunk_patch on what the filter returned
FilterAndSynthesize(r) ==
    /\ gpc = "input"
    /\ line_ranges' = r
    /\ filtered' = filter_hunk_for_ranges(hunk, r)
    /\ hunk_patch' = generate_hunk_patch(hunk, filter_hunk_for_ranges(hunk, r))
    /\ gpc' = "done"
    /\ UNCHANGED <<hunk, execVars, diagVars, engVars,
                   callVars, runVars, ioVars,
                   parseVars, fixVars>>

NextGen ==
    \E r \in RangeLists(hunk.new_start, hunk.new_start + MaxLines - 1) :
        FilterAndSynthesize(r)

SpecGen == InitGen /\ [][NextGen]_vars

(***************************************************************************)
(* patch.py: FileDiff and PatchGenerator.parse_diff                        *)
(*                                                                         *)
(* The diff text is the list diff_text.split("\n"); each element carries   *)
(* what parse_diff reads of the line: k, the prefix it tests with          *)
(* startswith ("diff --git", "new file", "deleted file", "Binary", "@@",   *)
(* "+++", "---", "+", "-", " ", "" for an empty line, "other"), for "@@"   *)
(* whether the header pattern matches and its four numbers, for a body     *)
(* line its content without the prefix.                                    *)
(***************************************************************************)
FileDiff(old_path, new_path) ==
    [old_path |-> old_path, new_path |-> new_path, hunks |-> <<>>,
     is_new_file |-> FALSE, is_deleted |-> FALSE, is_binary |-> FALSE]

\* the state of the while loop: files, current_file and current_hunk
\* (<<>> is None, <<x>> is x). current_file.hunks holds references: a hunk
\* that was appended and is still current_hunk keeps growing in the list, so
\* `appended` counts the entries of current_file.hunks that are current_hunk
\* itself, and they are written out when current_hunk is replaced.
ParseStart ==
    [files |-> <<>>, current_file |-> <<>>, current_hunk |-> <<>>,
     appended |-> 0]

RECURSIVE Copies(_, _)
Copies(x, n) == IF n <= 0 THEN <<>> ELSE <<x>> \o Copies(x, n - 1)

\* current_file with the pending references, and one more when `more`
FileWithHunks(st, more) ==
    IF st.current_hunk # <<>>
    THEN [st.current_file[1] EXCEPT !.hunks =
            @ \o Copies(st.current_hunk[1], st.appended + (IF more THEN 1 ELSE 0))]
    ELSE st.current_file[1]

\* one iteration of the while loop on `line`
ParseLine(st, line) ==
    IF line.k = "diff --git" THEN
        [files |-> IF st.current_file # <<>>
                   THEN Append(st.files, FileWithHunks(st, TRUE))
                   ELSE st.files,
         current_file |-> <<FileDiff(line.old_path, line.new_path)>>,
         current_hunk |-> <<>>,
         appended |-> 0]
    ELSE
    LET cf == IF st.current_file = <<>> THEN <<>>
              ELSE IF line.k = "new file"
                   THEN <<[st.current_file[1] EXCEPT !.is_new_file = TRUE]>>
              ELSE IF line.k = "deleted file"
                   THEN <<[st.current_file[1] EXCEPT !.is_deleted = TRUE]>>
              ELSE IF line.k = "Binary"
                   THEN <<[st.current_file[1] EXCEPT !.is_binary = TRUE]>>
              ELSE st.current_file
        s1 == [st EXCEPT !.current_file = cf]
        has == s1.current_hunk # <<>> /\ s1.current_file # <<>>
    IN  IF line.k = "@@" THEN
            IF line.matches
            THEN [s1 EXCEPT
                    !.current_file = IF s1.current_file = <<>> THEN <<>>
                                     ELSE <<FileWithHunks(s1, TRUE)>>,
                    !.current_hunk =
                        <<DiffHunk(line.old_start, line.old_count,
                                   line.new_start, line.new_count, <<>>)>>,
                    !.appended = 0]
            ELSE [s1 EXCEPT !.appended = IF has THEN @ + 1 ELSE @]
        ELSE IF s1.current_hunk # <<>> /\ line.k \in {"+", "-", " "}
        THEN [s1 EXCEPT !.current_hunk[1].lines =
                            Append(@, DiffLine(line.content, line.k))]
        ELSE s1

RECURSIVE ParseLoop(_, _)
ParseLoop(st, lines) ==
    IF lines = <<>> THEN st
    ELSE ParseLoop(ParseLine(st, Head(lines)), Tail(lines))

parse_diff(diff_text) ==
    LET st == ParseLoop(ParseStart, diff_text)
        files == IF st.current_file # <<>>
                 THEN Append(st.files, FileWithHunks(st, TRUE))
                 ELSE st.files
    IN  [f \in 1..Len(files) |->
            [files[f] EXCEPT !.hunks =
                [h \in 1..Len(files[f].hunks) |->
                    assign_line_numbers(files[f].hunks[h])]]]

(***************************************************************************)
(* patch.py: generate_patch_for_lines and _generate_full_file_patch.       *)
(* A patch is the list of its lines: the two file header lines, then for   *)
(* each hunk its header and body; <<>> stands for None.                    *)
(***************************************************************************)
RECURSIVE HunkPatches(_, _)
HunkPatches(hunks, ranges) ==
    IF hunks = <<>> THEN <<>>
    ELSE LET hunk_lines == filter_hunk_for_ranges(Head(hunks), ranges)
             one == IF hunk_lines # <<>>
                    THEN generate_hunk_patch(Head(hunks), hunk_lines)
                    ELSE <<>>
         IN  one \o HunkPatches(Tail(hunks), ranges)

RECURSIVE FullHunks(_)
FullHunks(hunks) ==
    IF hunks = <<>> THEN <<>>
    ELSE <<Head(hunks).header>>
         \o [i \in 1..Len(Head(hunks).lines) |-> PatchLine(Head(hunks).lines[i])]
         \o FullHunks(Tail(hunks))

generate_full_file_patch(fd) ==
    <<[tag |-> "---", path |-> "/dev/null"], [tag |-> "+++", path |-> fd.new_path]>>
    \o FullHunks(fd.hunks)

generate_patch_for_lines(fd, ranges) ==
    IF fd.is_binary THEN <<>>
    ELSE IF fd.is_new_file THEN generate_full_file_patch(fd)
    ELSE LET body == HunkPatches(fd.hunks, ranges) IN
         IF body = <<>> THEN <<>>
         ELSE <<[tag |-> "---", path |-> fd.old_path],
                [tag |-> "+++", path |-> fd.new_path]>> \o body

(***************************************************************************)
(* Files.  A file's content is the list content.split("\n"): line ids, 0   *)
(* for the empty string, so a text that ends with a newline ends with 0.   *)
(* <<>> stands for a path that does not exist.                             *)
(***************************************************************************)
Front(s) == SubSeq(s, 1, Len(s) - 1)

\* the lines `git apply` sees: complete lines as their ids, a last line
\* without newline as the negated id (it matches no line of a patch)
ImageOf(content) ==
    IF content[Len(content)] = 0 THEN Front(content)
    ELSE Front(content) \o <<0 - content[Len(content)]>>

ContentOf(image) ==
    IF image # <<>> /\ image[Len(image)] < 0
    THEN Front(image) \o <<0 - image[Len(image)]>>
    ELSE image \o <<0>>

(***************************************************************************)
(* patch.py: PatchGenerator.apply_patch, i.e. `git apply --check` followed *)
(* by `git apply` on the working tree file.  The retry with `--check -3`   *)
(* cannot turn a rejected patch into an applied one: the final `git apply` *)
(* runs without -3 and its failure is caught and answered with False.      *)
(***************************************************************************)
\* the hunks of a patch: each the list of its header and body lines
RECURSIVE SplitFragments(_, _)
SplitFragments(lines, acc) ==
    IF lines = <<>> THEN acc
    ELSE IF Head(lines).tag = "@@"
         THEN SplitFragments(Tail(lines), Append(acc, <<Head(lines)>>))
         ELSE IF acc = <<>> THEN SplitFragments(Tail(lines), acc)
         ELSE SplitFragments(Tail(lines),
                [acc EXCEPT ![Len(acc)] = Append(@, Head(lines))])

SideOf(body, tags) ==
    LET keep(l) == l.tag \in tags
        sel == SelectSeq(body, keep)
    IN  [i \in 1..Len(sel) |-> sel[i].content]

\* git's apply_one_fragment/find_pos: the preimage must be found in the
\* image, at the top for a hunk headed -0 or -1, at the end for a hunk
\* without trailing context, else at the place nearest to the header's
\* new start (forwards first); a hunk whose counts do not match its body or
\* that changes nothing is a corrupt patch. Result: <<ok, image>>
ApplyFragment(img, frag) ==
    LET hdr == frag[1]
        body == Tail(frag)
        pre == SideOf(body, {" ", "-"})
        post == SideOf(body, {" ", "+"})
        chg == {i \in 1..Len(body) : body[i].tag # " "}
        trailing == IF chg = {} THEN 0
                    ELSE Len(body) - (CHOOSE i \in chg : \A j \in chg : j <= i)
        match_beginning == hdr.old_start = 0 \/ hdr.old_start = 1
        match_end == trailing = 0
        start == Min(IF hdr.new_start # 0 THEN hdr.new_start - 1 ELSE 0, Len(img))
        P == {q \in 0..(Len(img) - Len(pre)) :
                /\ \A j \in 1..Len(pre) : img[q + j] = pre[j]
                /\ match_beginning => q = 0
                /\ match_end => q + Len(pre) = Len(img)}
        dist(q) == IF q >= start THEN 2 * (q - start) ELSE 2 * (start - q) + 1
        at == CHOOSE q \in P : \A r \in P : dist(q) <= dist(r)
    IN  IF \/ Len(pre) # hdr.old_count
           \/ Len(post) # hdr.new_count
           \/ chg = {}
           \/ P = {}
        THEN <<FALSE, img>>
        ELSE <<TRUE, SubSeq(img, 1, at) \o post
                     \o SubSeq(img, at + Len(pre) + 1, Len(img))>>

RECURSIVE ApplyFragments(_, _)
ApplyFragments(img, frags) ==
    IF frags = <<>> THEN <<TRUE, img>>
    ELSE LET r == ApplyFragment(img, Head(frags)) IN
         IF r[1] THEN ApplyFragments(r[2], Tail(frags)) ELSE r

\* <<applied, content of the working tree file afterwards>>; nothing is
\* written unless every hunk applies
apply_patch(patch, content) ==
    LET creates == patch[1].path = "/dev/null"
        frags == SplitFragments(patch, <<>>)
    IN  IF creates /\ content # <<>> THEN <<FALSE, content>>
        ELSE IF ~creates /\ content = <<>> THEN <<FALSE, content>>
        ELSE LET r == ApplyFragments(IF content = <<>> THEN <<>>
                                     ELSE ImageOf(content), frags)
             IN  IF r[1] THEN <<TRUE, ContentOf(r[2])>> ELSE <<FALSE, content>>

(***************************************************************************)
(* phases/execution.py: the two copy fallbacks of the Executor             *)
(***************************************************************************)
\* Executor._copy_file_from_source: `git checkout <source> -- <path>`;
\* <<returned, content of the working tree file afterwards>>
copy_file_from_source(content, source, git_ok) ==
    IF git_ok /\ source # <<>> THEN <<TRUE, source>> ELSE <<FALSE, content>>

\* the set lines_to_copy
LinesToCopy(ranges) ==
    UNION {ranges[k][1]..ranges[k][2] : k \in 1..Len(ranges)}

SetMax(S) == CHOOSE x \in S : \A y \in S : y <= x

\* mutant: the result starts from empty lines instead of the current content
copy_lines_on_blank(content, source, ranges, io_ok) ==
    IF source = <<>> \/ ~io_ok THEN <<FALSE, content>>
    ELSE LET lines_to_copy == LinesToCopy(ranges)
             max_line == Max(SetMax(lines_to_copy), Len(content))
         IN  <<TRUE, [n \in 1..max_line |->
                        IF n \in lines_to_copy /\ n <= Len(source)
                        THEN source[n] ELSE 0]>>

\* Executor._copy_lines_from_source; <<returned, content afterwards>>
copy_lines_from_source(content, source, ranges, io_ok) ==
    IF source = <<>> \/ ~io_ok THEN <<FALSE, content>>
    ELSE LET source_lines == source
             current_lines == content
             lines_to_copy == LinesToCopy(ranges)
             max_line == Max(SetMax(lines_to_copy), Len(current_lines))
             result_lines ==
                [n \in 1..max_line |->
                    IF n \in lines_to_copy /\ n <= Len(source_lines)
                    THEN source_lines[n]
                    ELSE IF n <= Len(current_lines) THEN current_lines[n]
                    ELSE 0]
         IN  <<TRUE, result_lines>>

(***************************************************************************)
(* phases/execution.py: Executor._apply_intent_patches, the loop body for  *)
(* one FileChange.  fc.in_diff says whether diffs_by_path holds the path;  *)
(* git_ok and io_ok are the outcome of the git checkout and of the file    *)
(* I/O of the overlay.  Result: the content of the working tree file and   *)
(* what happened: "copied", "applied", "overlaid", "raised" (ExecutionError*)
(* ), "no_patch" (generate_patch_for_lines returned None), "skipped" (the  *)
(* copy returned False and the loop went on).                              *)
(***************************************************************************)
ApplyFileChangeResult(fc, fd, content, source, git_ok, io_ok) ==
    IF fc.is_entire_file \/ fc.line_ranges = <<>> \/ ~fc.in_diff THEN
        LET c == copy_file_from_source(content, source, git_ok) IN
        [content |-> c[2], outcome |-> IF c[1] THEN "copied" ELSE "skipped"]
    ELSE
        LET patch == generate_patch_for_lines(fd, fc.line_ranges) IN
        IF patch = <<>> THEN [content |-> content, outcome |-> "no_patch"]
        ELSE LET a == apply_patch(patch, content) IN
             IF a[1] THEN [content |-> a[2], outcome |-> "applied"]
             ELSE LET o == copy_lines_from_source(content, source,
                                                  fc.line_ranges, io_ok)
                  IN  IF o[1] THEN [content |-> o[2], outcome |-> "overlaid"]
                      ELSE [content |-> content, outcome |-> "raised"]

(***************************************************************************)
(* SpecExec: a file of the branch diff.  An edit script says for each line *)
(* what `git diff base source` shows of it: " " a context line, "+" an     *)
(* added line, "-" a removed line, "g" an unchanged line outside every     *)
(* hunk.  Line i of the script has content i.                              *)
(***************************************************************************)
EditOps == {" ", "+", "-", "g"}

SideLines(es, ops) ==
    LET idx == [i \in 1..Len(es) |-> i]
        keep(i) == es[i] \in ops
    IN  SelectSeq(idx, keep)

OldLines(es) == SideLines(es, {" ", "-", "g"})
NewLines(es) == SideLines(es, {" ", "+", "g"})

\* the hunks are the maximal runs without "g"; each must hold a change
RunEnd(es, a) ==
    LET S == {b \in a..Len(es) : \A j \in a..b : es[j] # "g"} IN SetMax(S)

WellFormedScript(es) ==
    /\ \E i \in 1..Len(es) : es[i] \in {"+", "-"}
    /\ \A a \in 1..Len(es) :
          (es[a] # "g" /\ (a = 1 \/ es[a - 1] = "g")) =>
              \E j \in a..RunEnd(es, a) : es[j] \in {"+", "-"}

\* the lines of `git diff` for the hunks of es from position i on; oldn and
\* newn count the old and new lines before i
RECURSIVE HunkText(_, _, _, _)
HunkText(es, i, oldn, newn) ==
    IF i > Len(es) THEN <<>>
    ELSE IF es[i] = "g" THEN HunkText(es, i + 1, oldn + 1, newn + 1)
    ELSE LET b == RunEnd(es, i)
             run == SubSeq(es, i, b)
             oc == Len(SideLines(run, {" ", "-"}))
             nc == Len(SideLines(run, {" ", "+"}))
         IN  <<[k |-> "@@", matches |-> TRUE,
                old_start |-> IF oc = 0 THEN oldn ELSE oldn + 1, old_count |-> oc,
                new_start |-> IF nc = 0 THEN newn ELSE newn + 1, new_count |-> nc]>>
             \o [j \in 1..Len(run) |-> [k |-> run[j], content |-> i + j - 1]]
             \o HunkText(es, b + 1, oldn + oc, newn + nc)

\* PatchGenerator.get_full_diff(...).split("\n") for the one path "f";
\* status is "modified", "new" or "deleted"
GitDiffText(es, status) ==
    <<[k |-> "diff --git", old_path |-> "f", new_path |-> "f"]>>
    \o (IF status = "new" THEN <<[k |-> "new file"]>>
        ELSE IF status = "deleted" THEN <<[k |-> "deleted file"]>> ELSE <<>>)
    \o <<[k |-> "other"], [k |-> "---"], [k |-> "+++"]>>
    \o HunkText(es, 1, 0, 0)
    \o <<[k |-> ""]>>

\* a file of the diff: its script and whether the path exists on both sides
FileCases ==
    {c \in [es : {e \in SeqsUpTo(EditOps, MaxFileLines) :
                     e # <<>> /\ WellFormedScript(e)},
            status : {"modified", "new", "deleted"}] :
        /\ c.status = "new" => OldLines(c.es) = <<>>
        /\ c.status = "deleted" => NewLines(c.es) = <<>>}

\* the FileChange records an intent can hold for the path
FileChanges ==
    {[is_entire_file |-> TRUE, line_ranges |-> <<>>, in_diff |-> TRUE],
     [is_entire_file |-> FALSE, line_ranges |-> <<>>, in_diff |-> TRUE],
     [is_entire_file |-> FALSE, line_ranges |-> <<<<1, 1>>>>, in_diff |-> FALSE]}
    \cup {[is_entire_file |-> FALSE, line_ranges |-> <<r>>, in_diff |-> TRUE] :
             r \in Ranges(1, MaxFileLines)}

InitExec ==
    /\ GenIdle /\ DiagIdle /\ EngIdle /\ CallIdle /\ RunIdle /\ IoIdle
    /\ ParseIdle /\ FixIdle
    /\ \E c \in FileCases :
          /\ file_diff = parse_diff(GitDiffText(c.es, c.status))[1]
          /\ source_file = IF c.status = "deleted" THEN <<>>
                           ELSE NewLines(c.es) \o <<0>>
          /\ work_file = IF c.status = "new" THEN <<>>
                         ELSE OldLines(c.es) \o <<0>>
    /\ last_fc = <<>>
    /\ outcome = "none"
    /\ covered = {}
    /\ part_ok = TRUE

\* the loop body of _apply_intent_patches for the FileChange of the next
\* intent. After an ExecutionError no further intent is applied. The intents
\* of a plan claim disjoint lines of the file (discovery repairs overlaps).
ApplyFileChange(fc, git_ok, io_ok) ==
    /\ outcome \notin {"idle", "raised"}
    /\ LinesToCopy(fc.line_ranges) \cap covered = {}
    /\ LET r == ApplyFileChangeResult(fc, file_diff, work_file, source_file,
                                      git_ok, io_ok)
       IN  /\ work_file' = r.content
           /\ outcome' = r.outcome
    /\ last_fc' = <<fc>>
    /\ covered' = covered \cup LinesToCopy(fc.line_ranges)
    /\ part_ok' = (/\ part_ok
                   /\ ~fc.is_entire_file /\ fc.in_diff /\ Len(fc.line_ranges) = 1)
    /\ UNCHANGED <<file_diff, source_file, genVars, diagVars, engVars,
                   callVars, runVars, ioVars,
                   parseVars, fixVars>>

\* the git checkout of a whole-file copy fails
CopyFails(fc) ==
    /\ fc.is_entire_file \/ fc.line_ranges = <<>> \/ ~fc.in_diff
    /\ ApplyFileChange(fc, FALSE, TRUE)

\* the file I/O of the line overlay fails
OverlayFails(fc) ==
    /\ ~(fc.is_entire_file \/ fc.line_ranges = <<>> \/ ~fc.in_diff)
    /\ ApplyFileChange(fc, TRUE, FALSE)

NextExec ==
    \E fc \in FileChanges :
        \/ ApplyFileChange(fc, TRUE, TRUE)
        \/ CopyFails(fc)
        \/ OverlayFails(fc)

SpecExec == InitExec /\ [][NextExec]_vars

(***************************************************************************)
(* verification.py: Verifier.diagnose_failure.  A difference record is a   *)
(* dict with "file", "line" and "changes", the list of the added/removed   *)
(* lines of one hunk of `git diff original split_tip`.                     *)
(***************************************************************************)
VerificationResult(passed, differences) ==
    [passed |-> passed, differences |-> differences]

\* len(set(d.get("file", "") for d in differences))
num_files(differences) ==
    Cardinality({differences[i].file : i \in 1..Len(differences)})

\* sum(len(d.get("changes", [])) for d in differences)
RECURSIVE total_changes(_)
total_changes(differences) ==
    IF differences = <<>> THEN 0
    ELSE Len(Head(differences).changes) + total_changes(Tail(differences))

\* the condition of the "low" branch
is_low_limit(nf, tc) == nf = 1 /\ tc < 5

is_low(nf, tc) == nf = 1 /\ tc <= 5

\* the condition of the "medium" branch
is_medium(nf, tc) == nf <= 3 /\ tc <= 20

\* the f"  {file}: line {line}" entries for differences[:5]
FileLineDetails(differences) ==
    [i \in 1..Min(5, Len(differences)) |->
        [kind |-> "file_line", file |-> differences[i].file,
         line |-> differences[i].line]]

diagnose_failure(result) ==
    LET differences == result.differences
        nf == num_files(differences)
        tc == total_changes(differences)
    IN
    IF result.passed THEN
        [severity |-> "none", likely_cause |-> "none",
         suggested_action |-> "none", details |-> <<>>]
    ELSE IF differences = <<>> THEN
        [severity |-> "high", likely_cause |-> "major structural difference",
         suggested_action |-> "backtrack_to_phase1", details |-> <<>>]
    ELSE IF is_low(nf, tc) THEN
        [severity |-> "low", likely_cause |-> "line misattribution",
         suggested_action |-> "retry_phase2",
         details |-> <<[kind |-> "File", file |-> differences[1].file],
                       [kind |-> "Changes", n |-> tc]>>
                     \o FileLineDetails(differences)]
    ELSE IF is_medium(nf, tc) THEN
        [severity |-> "medium", likely_cause |-> "multiple line misattributions",
         suggested_action |-> "retry_phase2_with_context",
         details |-> <<[kind |-> "Files affected", n |-> nf],
                       [kind |-> "Total changes", n |-> tc]>>
                     \o FileLineDetails(differences)]
    ELSE
        [severity |-> "high", likely_cause |-> "intent boundary errors",
         suggested_action |-> "backtrack_to_phase1",
         details |-> <<[kind |-> "Files affected", n |-> nf],
                       [kind |-> "Total changes", n |-> tc],
                       [kind |-> "Likely need to re-discover intents"]>>
                     \o FileLineDetails(differences)]

(***************************************************************************)
(* SpecDiag: diagnose_failure on the results verify_split can return.      *)
(* _find_differences makes one record per hunk, file after file, so the    *)
(* files of the records are 1, 2, ... in order of first appearance.  A     *)
(* passed result has no difference records.                                *)
(***************************************************************************)
\* how many added/removed lines a record can hold
ChangeCounts == {1, 5, 15}

Changes(n) == [i \in 1..n |-> [type |-> "added"]]

\* the file of the next record: that of the last one, or the next file
NextFiles(ds) ==
    IF ds = <<>> THEN {1} ELSE {ds[Len(ds)].file, ds[Len(ds)].file + 1}

InitDiag ==
    /\ GenIdle /\ ExecIdle /\ EngIdle /\ CallIdle /\ RunIdle /\ IoIdle
    /\ ParseIdle /\ FixIdle
    /\ \E passed \in BOOLEAN :
          verification_result = VerificationResult(passed, <<>>)
    /\ diagnosis = <<>>

\* _find_differences reads one more hunk of the diff of the two refs, with c
\* added/removed lines, and appends its record
FindDifference(f, c) ==
    /\ verification_result # <<>>
    /\ ~verification_result.passed
    /\ diagnosis = <<>>
    /\ Len(verification_result.differences) < MaxDiffs
    /\ f \in NextFiles(verification_result.differences)
    /\ verification_result' =
          VerificationResult(FALSE,
              Append(verification_result.differences,
                     [file |-> f,
                      line |-> Len(verification_result.differences) + 1,
                      changes |-> Changes(c)]))
    /\ UNCHANGED <<diagnosis, genVars, execVars, engVars,
                   callVars, runVars, ioVars,
                   parseVars, fixVars>>

Diagnose ==
    /\ verification_result # <<>>
    /\ diagnosis = <<>>
    /\ diagnosis' = diagnose_failure(verification_result)
    /\ UNCHANGED <<verification_result, genVars, execVars, engVars,
                   callVars, runVars, ioVars,
                   parseVars, fixVars>>

NextDiag ==
    \/ \E f \in 1..MaxDiffs, c \in ChangeCounts : FindDifference(f, c)
    \/ Diagnose

SpecDiag == InitDiag /\ [][NextDiag]_vars

(***************************************************************************)
(* models.py: Session defaults; engine.py: SplitEngine                     *)
(***************************************************************************)
\* Session.max_attempts
max_attempts == 5

\* `self.session.current_attempt > self.session.max_attempts`
attempts_exhausted_early(attempt) == attempt >= max_attempts

attempts_exhausted(attempt) == attempt > max_attempts

\* the phase _confirm_intents and the auto mode branch of run set
confirmed_phase_skip == "execution"

confirmed_phase == "planning"

BacktrackInfo(from_phase, to_phase, attempt) ==
    [from_phase |-> from_phase, to_phase |-> to_phase, attempt |-> attempt]

\* the changes of session.phase when it goes through the phases of path
RECURSIVE PhaseChanges(_)
PhaseChanges(path) ==
    IF Len(path) < 2 THEN {}
    ELSE (IF path[1] = path[2] THEN {} ELSE {<<path[1], path[2]>>})
         \cup PhaseChanges(Tail(path))

\* the except clause of run, entered with session.phase = ph: the session
\* fields and the loop position afterwards
ExceptClause(ph) ==
    LET attempt == current_attempt + 1 IN
    IF attempts_exhausted(attempt)
    THEN [phase |-> "failed", attempt |-> attempt, pc |-> "done", ret |-> "false"]
    ELSE [phase |-> ph, attempt |-> attempt, pc |-> "run", ret |-> "none"]

\* AIClient.escalate_tier
escalate_tier(tier) ==
    IF model_override THEN tier
    ELSE IF tier < 3 THEN tier + 1 ELSE tier

(***************************************************************************)
(* The repository.  The session is made on the original branch, which      *)
(* differs from the base branch.  An intent's branch name is generated     *)
(* from the intent name the AI gave: it can be a new name or the name of a *)
(* branch of the repository.                                               *)
(***************************************************************************)
original_branch == "feature"
base_branch == "main"

\* the branches the repository has when the run starts
RepoBranches == {original_branch, base_branch}

BranchNames == RepoBranches \cup {"topic"}

Contents == {"orig", "other"}

\* intents of a plan
MaxIntents == 2

\* the intents of a plan have different names
ExecutionOrders ==
    {o \in SeqsUpTo(BranchNames, MaxIntents) :
        \A i, j \in 1..Len(o) : i # j => o[i] # o[j]}

branch_exists(bs, name) == bs[name] # "absent"

\* Executor._cleanup_branches: <<branches, head>> afterwards
RECURSIVE DeleteCreated(_, _, _)
DeleteCreated(bs, hd, created) ==
    IF created = <<>> THEN bs
    ELSE LET b == Head(created)
             bs1 == IF branch_exists(bs, b) /\ hd # b
                    THEN [bs EXCEPT ![b] = "absent"] ELSE bs
         IN  DeleteCreated(bs1, hd, Tail(created))

cleanup_branches(bs, hd, created) ==
    LET hd1 == IF branch_exists(bs, original_branch) THEN original_branch ELSE hd
    IN  <<DeleteCreated(bs, hd1, created), hd1>>

\* the finally clause of execute: the head afterwards
checkout_original(bs, hd) ==
    IF ~dry_run /\ branch_exists(bs, original_branch) THEN original_branch ELSE hd

(***************************************************************************)
(* Spec: SplitEngine.run on a fresh session                                *)
(***************************************************************************)
Init ==
    /\ GenIdle /\ ExecIdle /\ DiagIdle /\ CallIdle /\ RunIdle /\ IoIdle
    /\ ParseIdle /\ FixIdle
    /\ phase = "init"
    /\ current_attempt = 1
    /\ backtracks = <<>>
    /\ dry_run \in BOOLEAN
    /\ auto_mode \in BOOLEAN
    /\ change_plan = <<>>
    /\ current_tier = 1
    /\ pc = "run"
    /\ ret = "none"
    /\ step = 0
    /\ previous_branch = base_branch
    /\ created_branches = <<>>
    /\ branches = [n \in BranchNames |->
                      IF n = original_branch THEN "orig"
                      ELSE IF n = base_branch THEN "other" ELSE "absent"]
    /\ head = original_branch
    /\ executions = 0
    /\ compared = FALSE
    /\ transitions = {}
    /\ handled = 0
    /\ exception_seen = FALSE
    /\ aborted = FALSE
    /\ foreign_deleted = {}

\* an exception reaches the except clause of run while session.phase = ph
Raise(ph) ==
    LET e == ExceptClause(ph) IN
    /\ phase' = e.phase
    /\ current_attempt' = e.attempt
    /\ pc' = e.pc
    /\ ret' = e.ret
    /\ transitions' = transitions \cup PhaseChanges(<<phase, ph, e.phase>>)
    /\ exception_seen' = TRUE

\* _run_discovery; discover returns the intents or raises DiscoveryError
RunDiscovery(ok) ==
    /\ pc = "run"
    /\ phase \in {"init", "discovery"}
    /\ IF ok
       THEN /\ phase' = "discovery"
            /\ pc' = "confirm"
            /\ transitions' = transitions \cup PhaseChanges(<<phase, "discovery">>)
            /\ UNCHANGED <<current_attempt, ret, exception_seen>>
       ELSE Raise("discovery")
    /\ UNCHANGED <<backtracks, dry_run, auto_mode, change_plan, current_tier,
                   repoVars, executions, compared, handled, aborted,
                   foreign_deleted, genVars, execVars, diagVars,
                   callVars, runVars, ioVars,
                   parseVars, fixVars>>

\* the confirmation of the intents: auto mode, or _confirm_intents with the
\* answer of the user ("e" opens the escape hatch, where "a" aborts)
ConfirmIntents(choice) ==
    /\ pc = "confirm"
    /\ phase = "discovery"
    /\ auto_mode => choice = "y"
    /\ IF choice = "n"
       THEN /\ pc' = "done"
            /\ ret' = "false"
            /\ aborted' = TRUE
            /\ UNCHANGED <<phase, current_attempt, transitions, exception_seen>>
       ELSE IF choice = "e-a"
       THEN Raise("discovery") /\ UNCHANGED aborted
       ELSE /\ phase' = confirmed_phase
            /\ pc' = "run"
            /\ transitions' = transitions \cup PhaseChanges(<<phase, confirmed_phase>>)
            /\ UNCHANGED <<current_attempt, ret, exception_seen, aborted>>
    /\ UNCHANGED <<backtracks, dry_run, auto_mode, change_plan, current_tier,
                   repoVars, executions, compared, handled,
                   foreign_deleted, genVars, execVars, diagVars,
                   callVars, runVars, ioVars,
                   parseVars, fixVars>>

\* _run_planning; plan returns a ChangePlan or raises PlanningError
RunPlanning(ok, order) ==
    /\ pc = "run"
    /\ phase = "planning"
    /\ IF ok
       THEN /\ change_plan' = order
            /\ phase' = "execution"
            /\ transitions' = transitions \cup PhaseChanges(<<phase, "execution">>)
            /\ UNCHANGED <<current_attempt, pc, ret, exception_seen>>
       ELSE /\ order = <<>>
            /\ Raise("planning")
            /\ UNCHANGED change_plan
    /\ UNCHANGED <<backtracks, dry_run, auto_mode, current_tier,
                   repoVars, executions, compared, handled, aborted,
                   foreign_deleted, genVars, execVars, diagVars,
                   callVars, runVars, ioVars,
                   parseVars, fixVars>>

\* _run_execution up to the try block of Executor.execute: an empty
\* execution order raises ExecutionError, and the content hash of the original
\* branch and the diff of the two branches need both branches
ExecuteStart ==
    /\ pc = "run"
    /\ phase = "execution"
    /\ executions' = executions + 1
    /\ compared' = FALSE
    /\ IF \/ change_plan = <<>>
          \/ ~branch_exists(branches, original_branch)
          \/ ~branch_exists(branches, base_branch)
       THEN /\ Raise("execution")
            /\ UNCHANGED repoVars
       ELSE /\ pc' = "execute"
            /\ step' = 1
            /\ previous_branch' = base_branch
            /\ created_branches' = <<>>
            /\ UNCHANGED <<phase, current_attempt, ret, transitions,
                           exception_seen, branches, head>>
    /\ UNCHANGED <<backtracks, dry_run, auto_mode, change_plan, current_tier,
                   handled, aborted, foreign_deleted,
                   genVars, execVars, diagVars,
                   callVars, runVars, ioVars,
                   parseVars, fixVars>>

\* the except and finally clauses of execute, entered with the repository
\* <<bs, hd>> and the list created; the ExecutionError goes to run and the
\* locals of execute are gone
ExecuteFails(bs, hd, created) ==
    LET c == cleanup_branches(bs, hd, created) IN
    /\ branches' = c[1]
    /\ head' = checkout_original(c[1], c[2])
    /\ Raise("execution")
    /\ step' = 0
    /\ previous_branch' = base_branch
    /\ created_branches' = <<>>

\* one iteration of the loop of execute: _create_intent_branch,
\* _apply_intent_patches (the commit leaves the branch with content), the build
\* and the push; raises says that one of the last three raised.  A branch
\* that exists and is not in foreign_deleted is one the run did not create.
ExecuteIntent(content, raises) ==
    /\ pc = "execute"
    /\ step <= Len(change_plan)
    /\ LET branch_name == change_plan[step]
           existed == branch_exists(branches, branch_name)
           bs1 == IF existed THEN [branches EXCEPT ![branch_name] = "absent"]
                  ELSE branches
           bs2 == [bs1 EXCEPT ![branch_name] = bs1[previous_branch]]
           created == Append(created_branches, branch_name)
       IN  IF dry_run
           THEN /\ content = "orig" /\ ~raises
                /\ step' = step + 1
                /\ previous_branch' = branch_name
                /\ UNCHANGED <<created_branches, branches, head,
                               foreign_deleted, phase, current_attempt, pc, ret,
                               transitions, exception_seen>>
           ELSE IF existed /\ head = branch_name
           THEN \* git refuses to delete the branch that is checked out
                /\ content = "orig" /\ ~raises
                /\ ExecuteFails(branches, head, created_branches)
                /\ UNCHANGED foreign_deleted
           ELSE /\ foreign_deleted' =
                      IF existed /\ branch_name \in RepoBranches
                      THEN foreign_deleted \cup {branch_name}
                      ELSE foreign_deleted
                /\ IF ~branch_exists(bs1, previous_branch)
                   THEN \* create_head from a ref that is gone
                        /\ content = "orig" /\ ~raises
                        /\ ExecuteFails(bs1, head, created_branches)
                   ELSE IF raises
                   THEN /\ content = "orig"
                        /\ ExecuteFails(bs2, branch_name, created)
                   ELSE /\ created_branches' = created
                        /\ branches' = [bs2 EXCEPT ![branch_name] = content]
                        /\ head' = branch_name
                        /\ step' = step + 1
                        /\ previous_branch' = branch_name
                        /\ UNCHANGED <<phase, current_attempt, pc, ret,
                                       transitions, exception_seen>>
    /\ UNCHANGED <<backtracks, dry_run, auto_mode, change_plan, current_tier,
                   executions, compared, handled, aborted,
                   genVars, execVars, diagVars,
                   callVars, runVars, ioVars,
                   parseVars, fixVars>>

\* the difference records of a failed result, one list for each action of
\* diagnose_failure
Difference(f, n) == [file |-> f, line |-> 1, changes |-> Changes(n)]

DiffSamples ==
    {<<>>, <<Difference(1, 1)>>, <<Difference(1, 5), Difference(2, 1)>>}

\* _handle_verification_failure below the attempt check, for the result with
\* the difference records ds: retry_with_error / rediscover succeed (ai_ok,
\* the new plan has the execution order) or raise
HandleVerificationFailure(attempt, ds, ai_ok, order) ==
    LET d == diagnose_failure(VerificationResult(FALSE, ds))
        action == d.suggested_action
        target == IF action = "backtrack_to_phase1" THEN "discovery"
                  ELSE "planning"
    IN  /\ IF ai_ok
           THEN /\ phase' = IF target = "discovery" THEN "discovery"
                            ELSE "execution"
                /\ change_plan' = IF target = "discovery" THEN change_plan
                                  ELSE order
                /\ UNCHANGED backtracks
           ELSE /\ order = <<>>
                /\ backtracks' = Append(backtracks,
                                        BacktrackInfo(phase, target, attempt))
                /\ phase' = target
                /\ UNCHANGED change_plan
        /\ target = "discovery" => order = <<>>
        /\ current_tier' = IF attempt >= 3 THEN escalate_tier(current_tier)
                           ELSE current_tier

\* the end of execute (verify_split, or the assumed success of a dry run, and
\* the finally clause) and what run does with the result
ExecuteFinish(ds, ai_ok, order) ==
    /\ pc = "execute"
    /\ step > Len(change_plan)
    /\ LET verify == ~dry_run /\ created_branches # <<>>
           tip == created_branches[Len(created_branches)]
       IN  IF verify /\ (\/ ~branch_exists(branches, original_branch)
                         \/ ~branch_exists(branches, tip))
           THEN \* VerificationError: the except and the finally clause
                LET c == cleanup_branches(branches, head, created_branches) IN
                /\ ds = <<>> /\ ai_ok /\ order = <<>>
                /\ branches' = c[1]
                /\ head' = checkout_original(c[1], c[2])
                /\ Raise("execution")
                /\ UNCHANGED <<backtracks, change_plan, current_tier, compared,
                               handled>>
           ELSE LET passed == IF verify
                              THEN branches[original_branch] = branches[tip]
                              ELSE TRUE
                    attempt == current_attempt + 1
                IN  /\ compared' = verify
                    /\ head' = checkout_original(branches, head)
                    /\ UNCHANGED <<branches, exception_seen>>
                    /\ IF passed
                       THEN /\ ds = <<>> /\ ai_ok /\ order = <<>>
                            /\ phase' = "complete"
                            /\ pc' = "done"
                            /\ ret' = "true"
                            /\ UNCHANGED <<current_attempt, backtracks,
                                           change_plan, current_tier, handled>>
                       ELSE /\ current_attempt' = attempt
                            /\ IF attempts_exhausted(attempt)
                               THEN /\ ds = <<>> /\ ai_ok /\ order = <<>>
                                    /\ phase' = "failed"
                                    /\ pc' = "done"
                                    /\ ret' = "false"
                                    /\ UNCHANGED <<backtracks, change_plan,
                                                   current_tier, handled>>
                               ELSE /\ HandleVerificationFailure(attempt, ds,
                                                                 ai_ok, order)
                                    /\ handled' = handled + 1
                                    /\ pc' = "run"
                                    /\ UNCHANGED ret
                    /\ transitions' = transitions \cup PhaseChanges(<<phase, phase'>>)
    /\ step' = 0
    /\ previous_branch' = base_branch
    /\ created_branches' = <<>>
    /\ UNCHANGED <<dry_run, auto_mode, executions, aborted,
                   foreign_deleted, genVars, execVars, diagVars,
                   callVars, runVars, ioVars,
                   parseVars, fixVars>>

Next ==
    \/ \E ok \in BOOLEAN : RunDiscovery(ok)
    \/ \E choice \in {"y", "n", "e-s", "e-a"} : ConfirmIntents(choice)
    \/ \E ok \in BOOLEAN, order \in ExecutionOrders : RunPlanning(ok, order)
    \/ ExecuteStart
    \/ \E content \in Contents, raises \in BOOLEAN : ExecuteIntent(content, raises)
    \/ \E ds \in DiffSamples, ai_ok \in BOOLEAN, order \in ExecutionOrders :
           ExecuteFinish(ds, ai_ok, order)

Spec == Init /\ [][Next]_vars

(***************************************************************************)
(* SpecCall: one call of Executor.execute, one step of the loop body at a  *)
(* time, on a repository whose working tree is clean when the call starts  *)
(***************************************************************************)
\* the session fields and the records that a call of execute leaves alone
callFrame == <<phase, current_attempt, backtracks, auto_mode, current_tier,
               pc, ret, dry_run, change_plan, executions, transitions, handled,
               exception_seen, aborted, genVars, execVars, diagVars,
               runVars, ioVars,
                   parseVars, fixVars>>

\* GitOperations.checkout_branch: the head afterwards.  git refuses when the
\* branch is missing, and when uncommitted changes would be overwritten
\* (co_ok says that they would not)
checkout_branch(bs, hd, name, co_ok) ==
    IF branch_exists(bs, name) /\ co_ok THEN name ELSE hd

\* `previous_branch = branch_name` at the end of the loop body
next_previous_base(branch_name) == base_branch

next_previous(branch_name) == branch_name

\* where the loop of execute goes after the intent at index i
AfterStep(i) == IF i >= Len(change_plan) THEN "verify" ELSE "create"

InitCall ==
    /\ GenIdle /\ ExecIdle /\ DiagIdle /\ RunIdle /\ IoIdle
    /\ ParseIdle /\ FixIdle
    /\ phase = "execution"
    /\ current_attempt = 1
    /\ backtracks = <<>>
    /\ dry_run \in BOOLEAN
    /\ auto_mode = FALSE
    /\ change_plan \in ExecutionOrders
    /\ current_tier = 1
    /\ pc = "call"
    /\ ret = "none"
    /\ step = 0
    /\ previous_branch = base_branch
    /\ created_branches = <<>>
    /\ branches = [n \in BranchNames |->
                      IF n = original_branch THEN "orig"
                      ELSE IF n = base_branch THEN "other" ELSE "absent"]
    /\ head = original_branch
    /\ executions = 0
    /\ compared = FALSE
    /\ transitions = {}
    /\ handled = 0
    /\ exception_seen = FALSE
    /\ aborted = FALSE
    /\ foreign_deleted = {}
    /\ xpc = "start"
    /\ dirty = FALSE
    /\ made = {}
    /\ creations = <<>>
    /\ patched = 0

\* execute before the try block: an empty execution order raises
CallStart ==
    /\ xpc = "start"
    /\ IF change_plan = <<>>
       THEN xpc' = "raised" /\ UNCHANGED step
       ELSE xpc' = "create" /\ step' = 1
    /\ UNCHANGED <<previous_branch, created_branches, branches, head,
                   compared, foreign_deleted, dirty, made, creations, patched,
                   callFrame>>

\* the except clause (_cleanup_branches) and the finally clause of execute,
\* entered with the repository <<bs, hd>>
ExceptFinally(bs, hd, co_ok) ==
    LET hd1 == checkout_branch(bs, hd, original_branch, co_ok)
        bs1 == DeleteCreated(bs, hd1, created_branches)
    IN  /\ branches' = bs1
        /\ head' = IF dry_run THEN hd1
                   ELSE checkout_branch(bs1, hd1, original_branch, co_ok)
        /\ xpc' = "raised"

\* the loop body of a dry run: only `previous_branch = branch_name`
DryRunStep ==
    /\ xpc = "create"
    /\ dry_run
    /\ previous_branch' = next_previous(change_plan[step])
    /\ step' = step + 1
    /\ xpc' = AfterStep(step)
    /\ UNCHANGED <<created_branches, branches, head, compared,
                   foreign_deleted, dirty, made, creations, patched,
                   callFrame>>

\* _create_intent_branch and `created_branches.append(branch_name)`
CreateIntentBranch ==
    /\ xpc = "create"
    /\ ~dry_run
    /\ LET branch_name == change_plan[step]
           existed == branch_exists(branches, branch_name)
           bs1 == IF existed THEN [branches EXCEPT ![branch_name] = "absent"]
                  ELSE branches
       IN  IF existed /\ head = branch_name
           THEN \* git refuses to delete the branch that is checked out
                /\ ExceptFinally(branches, head, TRUE)
                /\ UNCHANGED <<created_branches, foreign_deleted, made,
                               creations>>
           ELSE /\ foreign_deleted' =
                      IF existed /\ branch_name \notin made
                      THEN foreign_deleted \cup {branch_name}
                      ELSE foreign_deleted
                /\ IF ~branch_exists(bs1, previous_branch)
                   THEN \* create_head from a ref that is gone
                        /\ ExceptFinally(bs1, head, TRUE)
                        /\ UNCHANGED <<created_branches, made, creations>>
                   ELSE /\ branches' = [bs1 EXCEPT ![branch_name] =
                                                      bs1[previous_branch]]
                        /\ head' = branch_name
                        /\ created_branches' =
                               Append(created_branches, branch_name)
                        /\ made' = made \cup {branch_name}
                        /\ creations' = Append(creations,
                               [name |-> branch_name, from |-> previous_branch,
                                patched |-> patched])
                        /\ xpc' = "apply"
    /\ UNCHANGED <<step, previous_branch, compared, dirty, patched, callFrame>>

\* _apply_intent_patches: it commits what it changed ("committed", the
\* branch then has content), changes nothing ("nothing"), or raises before
\* ("raised_clean") or after ("raised_dirty") it changed the working tree
ApplyIntentPatches(result, content, co_ok) ==
    /\ xpc = "apply"
    /\ LET branch_name == change_plan[step] IN
       CASE result = "committed" ->
              /\ co_ok
              /\ branches' = [branches EXCEPT ![branch_name] = content]
              /\ patched' = patched + 1
              /\ xpc' = "build"
              /\ UNCHANGED <<head, dirty>>
         [] result = "nothing" ->
              /\ co_ok /\ content = "orig"
              /\ patched' = patched + 1
              /\ xpc' = "build"
              /\ UNCHANGED <<branches, head, dirty>>
         [] result = "raised_clean" ->
              /\ co_ok /\ content = "orig"
              /\ ExceptFinally(branches, head, TRUE)
              /\ UNCHANGED <<dirty, patched>>
         [] result = "raised_dirty" ->
              /\ content = "orig"
              /\ dirty' = TRUE
              /\ ExceptFinally(branches, head, co_ok)
              /\ UNCHANGED patched
    /\ UNCHANGED <<step, previous_branch, created_branches, compared,
                   foreign_deleted, made, creations, callFrame>>

\* verify_intermediate_build and _push_and_create_pr, then the end of the
\* loop body
BuildAndPush(raises) ==
    /\ xpc = "build"
    /\ IF raises
       THEN /\ ExceptFinally(branches, head, TRUE)
            /\ UNCHANGED <<step, previous_branch>>
       ELSE /\ previous_branch' = next_previous(change_plan[step])
            /\ step' = step + 1
            /\ xpc' = AfterStep(step)
            /\ UNCHANGED <<branches, head>>
    /\ UNCHANGED <<created_branches, compared, foreign_deleted, dirty, made,
                   creations, patched, callFrame>>

\* the final verification, the return and the finally clause
FinalVerification ==
    /\ xpc = "verify"
    /\ LET verify == ~dry_run /\ created_branches # <<>>
           tip == created_branches[Len(created_branches)]
       IN  IF verify /\ (\/ ~branch_exists(branches, original_branch)
                         \/ ~branch_exists(branches, tip))
           THEN /\ ExceptFinally(branches, head, TRUE)
                /\ UNCHANGED compared
           ELSE /\ compared' = verify
                /\ head' = IF dry_run THEN head
                           ELSE checkout_branch(branches, head,
                                                original_branch, TRUE)
                /\ xpc' = "returned"
                /\ UNCHANGED branches
    /\ UNCHANGED <<step, previous_branch, created_branches, foreign_deleted,
                   dirty, made, creations, patched, callFrame>>

NextCall ==
    \/ CallStart
    \/ DryRunStep
    \/ CreateIntentBranch
    \/ \E result \in {"committed", "nothing", "raised_clean", "raised_dirty"},
          content \in Contents, co_ok \in BOOLEAN :
           ApplyIntentPatches(result, content, co_ok)
    \/ \E raises \in BOOLEAN : BuildAndPush(raises)
    \/ FinalVerification

SpecCall == InitCall /\ [][NextCall]_vars

(***************************************************************************)
(* SpecRun: SplitEngine.run with each collaborator call (discover, plan,   *)
(* execute, retry_with_error, rediscover, save_session) as one step with   *)
(* its possible results                                                    *)
(***************************************************************************)
\* the results of a call that asks the AI: it returns ("ok"), raises
\* ("error"), or AIClient._check_budget refuses the request ("budget": the
\* AIError becomes a DiscoveryError / PlanningError)
OracleResults == {"ok", "error", "budget"}

\* AIClient._get_model for a call made now gives the tier1 model although
\* current_attempt has reached 3
WeakCall == current_attempt >= 3 /\ current_tier = 1 /\ ~model_override

\* session.phase before its last change, after it went through path
RECURSIVE PrevAfter(_, _)
PrevAfter(path, prev) ==
    IF Len(path) < 2 THEN prev
    ELSE PrevAfter(Tail(path), IF path[1] # path[2] THEN path[1] ELSE prev)

\* a phase starts: a cancellation or a refusal before it was not final
PhaseStarts(refused) ==
    /\ cancel' = IF cancel = "none" THEN "none" ELSE "ignored"
    /\ budget' = IF budget # "ok" THEN "retried"
                 ELSE IF refused THEN "refused" ELSE "ok"

\* the except clause of run (and the finally clause when it returns),
\* entered with session.phase = ph
Except(ph) ==
    LET e == ExceptClause(ph) IN
    /\ phase' = e.phase
    /\ current_attempt' = e.attempt
    /\ pc' = e.pc
    /\ ret' = e.ret
    /\ transitions' = transitions \cup PhaseChanges(<<phase, ph, e.phase>>)
    /\ prev_phase' = PrevAfter(<<phase, ph, e.phase>>, prev_phase)
    /\ exception_seen' = TRUE
    /\ saved_phase' = e.phase

InitRun ==
    /\ GenIdle /\ ExecIdle /\ DiagIdle /\ CallIdle /\ IoIdle
    /\ ParseIdle /\ FixIdle
    /\ phase = "init"
    /\ current_attempt = 1
    /\ backtracks = <<>>
    /\ dry_run = FALSE
    /\ auto_mode \in BOOLEAN
    /\ change_plan = <<>>
    /\ current_tier = 1
    /\ pc = "run"
    /\ ret = "none"
    /\ step = 0 /\ previous_branch = "" /\ created_branches = <<>>
    /\ branches = <<>> /\ head = ""
    /\ executions = 0
    /\ compared = FALSE
    /\ transitions = {}
    /\ handled = 0
    /\ exception_seen = FALSE
    /\ aborted = FALSE
    /\ foreign_deleted = {}
    /\ model_override \in BOOLEAN
    /\ weak_call = FALSE
    /\ cancel = "none"
    /\ budget = "ok"
    /\ saved_phase = "none"
    /\ prev_phase = "none"
    /\ rediscovery = "none"
    /\ iteration = 0

\* _run_discovery; discover assigns session.discovered_intents when it
\* returns
Discovery(answer) ==
    /\ pc = "run"
    /\ phase \in {"init", "discovery"}
    /\ PhaseStarts(answer = "budget")
    /\ rediscovery' = IF rediscovery = "pending" /\ answer = "ok"
                      THEN "replaced" ELSE rediscovery
    /\ IF answer = "ok"
       THEN /\ phase' = "discovery"
            /\ pc' = "confirm"
            /\ transitions' = transitions \cup PhaseChanges(<<phase, "discovery">>)
            /\ prev_phase' = PrevAfter(<<phase, "discovery">>, prev_phase)
            /\ weak_call' = (weak_call \/ WeakCall)
            /\ UNCHANGED <<current_attempt, ret, exception_seen, saved_phase>>
       ELSE /\ Except("discovery")
            /\ UNCHANGED weak_call
    /\ UNCHANGED <<backtracks, dry_run, auto_mode, change_plan, current_tier,
                   repoVars, executions, compared, handled, aborted,
                   foreign_deleted, model_override, iteration,
                   genVars, execVars, diagVars, callVars, ioVars,
                   parseVars, fixVars>>

\* the confirmation of the intents: auto mode, or _confirm_intents with the
\* answer of the user ("e" opens the escape hatch, where "a" aborts)
Confirmation(choice) ==
    /\ pc = "confirm"
    /\ phase = "discovery"
    /\ auto_mode => choice = "y"
    /\ rediscovery' = IF rediscovery = "pending" /\ choice \in {"y", "e-s"}
                      THEN "used" ELSE rediscovery
    /\ IF choice = "n"
       THEN /\ pc' = "done"
            /\ ret' = "false"
            /\ aborted' = TRUE
            /\ cancel' = "requested"
            /\ saved_phase' = phase
            /\ UNCHANGED <<phase, current_attempt, transitions, exception_seen,
                           prev_phase>>
       ELSE IF choice = "e-a"
       THEN /\ cancel' = "requested"
            /\ Except("discovery")
            /\ UNCHANGED aborted
       ELSE /\ phase' = confirmed_phase
            /\ pc' = "run"
            /\ transitions' = transitions \cup PhaseChanges(<<phase, confirmed_phase>>)
            /\ prev_phase' = PrevAfter(<<phase, confirmed_phase>>, prev_phase)
            /\ UNCHANGED <<current_attempt, ret, exception_seen, aborted,
                           cancel, saved_phase>>
    /\ UNCHANGED <<backtracks, dry_run, auto_mode, change_plan, current_tier,
                   repoVars, executions, compared, handled,
                   foreign_deleted, model_override, weak_call, budget,
                   iteration,
                   genVars, execVars, diagVars, callVars, ioVars,
                   parseVars, fixVars>>

\* _run_planning
Planning(answer) ==
    /\ pc = "run"
    /\ phase = "planning"
    /\ PhaseStarts(answer = "budget")
    /\ IF answer = "ok"
       THEN /\ phase' = "execution"
            /\ transitions' = transitions \cup PhaseChanges(<<phase, "execution">>)
            /\ prev_phase' = PrevAfter(<<phase, "execution">>, prev_phase)
            /\ weak_call' = (weak_call \/ WeakCall)
            /\ UNCHANGED <<current_attempt, pc, ret, exception_seen,
                           saved_phase>>
       ELSE /\ Except("planning")
            /\ UNCHANGED weak_call
    /\ UNCHANGED <<backtracks, dry_run, auto_mode, change_plan, current_tier,
                   repoVars, executions, compared, handled, aborted,
                   foreign_deleted, model_override, rediscovery, iteration,
                   genVars, execVars, diagVars, callVars, ioVars,
                   parseVars, fixVars>>

\* _run_execution and what run does with the result: execute returns a
\* passed result, a failed one with the difference records ds, or raises;
\* ai is the result of retry_with_error / rediscover
Execution(result, ds, ai) ==
    /\ pc = "run"
    /\ phase = "execution"
    /\ executions' = executions + 1
    /\ LET attempt == current_attempt + 1
           handles == result = "failed" /\ ~attempts_exhausted(attempt)
           target == IF diagnose_failure(VerificationResult(FALSE, ds))
                            .suggested_action = "backtrack_to_phase1"
                     THEN "discovery" ELSE "planning"
       IN  /\ PhaseStarts(handles /\ ai = "budget")
           /\ handles \/ (ds = <<>> /\ ai = "ok")
           /\ CASE result = "raised" ->
                    /\ Except("execution")
                    /\ UNCHANGED <<backtracks, change_plan, current_tier,
                                   handled>>
                [] result = "passed" ->
                    /\ phase' = "complete"
                    /\ pc' = "done"
                    /\ ret' = "true"
                    /\ saved_phase' = "complete"
                    /\ UNCHANGED <<current_attempt, backtracks, change_plan,
                                   current_tier, handled, exception_seen>>
                [] result = "failed" /\ ~handles ->
                    /\ current_attempt' = attempt
                    /\ phase' = "failed"
                    /\ pc' = "done"
                    /\ ret' = "false"
                    /\ saved_phase' = "failed"
                    /\ UNCHANGED <<backtracks, change_plan, current_tier,
                                   handled, exception_seen>>
                [] handles ->
                    /\ current_attempt' = attempt
                    /\ HandleVerificationFailure(attempt, ds, ai = "ok", <<>>)
                    /\ handled' = handled + 1
                    /\ saved_phase' = IF ai = "ok" THEN saved_phase ELSE target
                    /\ UNCHANGED <<pc, ret, exception_seen>>
           /\ result # "raised" =>
                  /\ transitions' = transitions \cup PhaseChanges(<<phase, phase'>>)
                  /\ prev_phase' = PrevAfter(<<phase, phase'>>, prev_phase)
           /\ rediscovery' = IF rediscovery = "replaced" THEN "replaced"
                             ELSE IF handles /\ target = "discovery" /\ ai = "ok"
                             THEN "pending" ELSE rediscovery
    /\ UNCHANGED <<dry_run, auto_mode, repoVars, compared, aborted,
                   foreign_deleted, model_override, weak_call, iteration,
                   genVars, execVars, diagVars, callVars, ioVars,
                   parseVars, fixVars>>

NextRun ==
    \/ \E answer \in OracleResults : Discovery(answer)
    \/ \E choice \in {"y", "n", "e-s", "e-a"} : Confirmation(choice)
    \/ \E answer \in OracleResults : Planning(answer)
    \/ \E result \in {"passed", "failed", "raised"}, ds \in DiffSamples,
          ai \in OracleResults : Execution(result, ds, ai)

SpecRun == InitRun /\ [][NextRun]_vars

(***************************************************************************)
(* SpecResume: SplitEngine.run on a session that find_latest_session       *)
(* loaded (--resume): any phase, any attempt that enters the while loop.   *)
(* Every call of a collaborator returns or raises.                         *)
(***************************************************************************)
SessionPhaseValues ==
    {"init", "discovery", "planning", "execution", "verification",
     "complete", "failed"}

InitResume ==
    /\ GenIdle /\ ExecIdle /\ DiagIdle /\ CallIdle /\ IoIdle
    /\ ParseIdle /\ FixIdle
    /\ phase \in SessionPhaseValues
    /\ current_attempt \in 1..max_attempts
    /\ backtracks = <<>>
    /\ dry_run = FALSE
    /\ auto_mode \in BOOLEAN
    /\ change_plan = <<>>
    /\ current_tier = 1
    /\ pc = "run"
    /\ ret = "none"
    /\ step = 0 /\ previous_branch = "" /\ created_branches = <<>>
    /\ branches = <<>> /\ head = ""
    /\ executions = 0
    /\ compared = FALSE
    /\ transitions = {}
    /\ handled = 0
    /\ exception_seen = FALSE
    /\ aborted = FALSE
    /\ foreign_deleted = {}
    /\ model_override = FALSE
    /\ weak_call = FALSE
    /\ cancel = "none"
    /\ budget = "ok"
    /\ saved_phase = phase
    /\ prev_phase = "none"
    /\ rediscovery = "none"
    /\ iteration = 0

\* an iteration of the while loop in which none of the four phase tests
\* holds: nothing is called, nothing is assigned, and the loop condition
\* is evaluated again
IdleIteration ==
    /\ pc = "run"
    /\ current_attempt <= max_attempts
    /\ phase \notin {"init", "discovery", "planning", "execution"}
    /\ iteration' = 1 - iteration
    /\ UNCHANGED <<engVars, model_override, weak_call, cancel, budget,
                   saved_phase, prev_phase, rediscovery,
                   genVars, execVars, diagVars, callVars, ioVars,
                   parseVars, fixVars>>

NextResume == NextRun \/ IdleIteration

SpecResume == InitResume /\ [][NextResume]_vars /\ WF_vars(NextResume)

(***************************************************************************)
(* SpecParse: one call of parse_diff on the diff of one file with two      *)
(* hunks.  A body line is its first character (mark) and the rest of the   *)
(* line; of the rest the parser can see how it begins (lead) and the model *)
(* keeps where the line stands (hunk h, line j).                           *)
(***************************************************************************)
MaxBody == 2      \* body lines of a hunk of the text

Marks == {"+", "-", " "}

\* how the rest of a body line begins: with "++", with "--", or otherwise
Leads == {"", "++", "--"}

\* what the tests line.startswith("+++"), ("---"), ("+"), ("-"), (" ") of
\* parse_diff see of the line mark + rest
BodyPrefix(mark, lead) ==
    IF mark = "+" /\ lead = "++" THEN "+++"
    ELSE IF mark = "-" /\ lead = "--" THEN "---"
    ELSE mark

\* the body line j of hunk h as an element of diff_text.split("\n")
BodyLine(h, j, mark, lead) ==
    [k |-> BodyPrefix(mark, lead), mark |-> mark,
     content |-> [h |-> h, j |-> j, lead |-> lead]]

\* a hunk of the text: whether its "@@" line matches the header pattern, and
\* the marks and leads of its body lines (a context line begins anyhow)
TextHunks ==
    {[matches |-> m, body |-> b] :
        m \in BOOLEAN,
        b \in UNION {[1..n -> {<<mk, ld>> \in Marks \X Leads :
                                  mk = " " => ld = ""}] : n \in 1..MaxBody}}

CountMarks(body, marks) ==
    Cardinality({j \in 1..Len(body) : body[j][1] \in marks})

\* the lines of hunk h of the text; its header carries the counts of its
\* body as git writes them, and starts after on old and nn new lines
HunkLines(th, h, on, nn) ==
    LET oc == CountMarks(th.body, {" ", "-"})
        nc == CountMarks(th.body, {" ", "+"})
    IN  <<[k |-> "@@", matches |-> th.matches,
           old_start |-> IF oc = 0 THEN on ELSE on + 1, old_count |-> oc,
           new_start |-> IF nc = 0 THEN nn ELSE nn + 1, new_count |-> nc]>>
        \o [j \in 1..Len(th.body) |->
               BodyLine(h, j, th.body[j][1], th.body[j][2])]

\* the text of `git diff` for one modified file with the hunks a and b
TextOf(a, b) ==
    <<[k |-> "diff --git", old_path |-> "f", new_path |-> "f"],
      [k |-> "other"], [k |-> "---"], [k |-> "+++"]>>
    \o HunkLines(a, 1, 0, 0)
    \o HunkLines(b, 2, 10 + CountMarks(a.body, {" ", "-"}),
                       10 + CountMarks(a.body, {" ", "+"}))
    \o <<[k |-> ""]>>

InitParse ==
    /\ GenIdle /\ ExecIdle /\ DiagIdle /\ EngIdle /\ CallIdle /\ RunIdle
    /\ IoIdle /\ FixIdle
    /\ \E a \in TextHunks, b \in TextHunks : diff_lines = TextOf(a, b)
    /\ parsed = <<>>

ParseDiff ==
    /\ parsed = <<>>
    /\ parsed' = parse_diff(diff_lines)
    /\ UNCHANGED <<diff_lines, genVars, execVars, diagVars, engVars, callVars,
                   runVars, ioVars, fixVars>>

NextParse == ParseDiff

SpecParse == InitParse /\ [][NextParse]_vars

(***************************************************************************)
(* SpecVerify: one call of Verifier.verify_split on two refs.  The output  *)
(* of `git ls-tree -r` lists, for each path of the tree, its blob.         *)
(***************************************************************************)
MaxPaths == 2     \* paths a tree can hold
HashSpace == 7    \* values of the truncated digest

Blobs == {1, 2}

\* the `git ls-tree -r` outputs: blob of each path, 0 for a path not in the
\* tree
Listings == [1..MaxPaths -> {0} \cup Blobs]

\* hashlib.sha256(result.stdout.encode()).hexdigest()[:16]: a digest of the
\* whole listing, cut to a fixed width
RECURSIVE Digest(_, _)
Digest(listing, i) ==
    IF i > MaxPaths THEN 0
    ELSE (listing[i] + 3 * Digest(listing, i + 1)) % HashSpace

\* the ref does not exist: git ls-tree fails
NoTree == <<>>

\* GitOperations.get_content_hash; None stands for the GitError it raises
\* when git ls-tree fails
get_content_hash(tree) ==
    IF tree = NoTree THEN None ELSE Digest(tree, 1)

\* `raise VerificationError(...)`
VerificationError == [raised |-> "VerificationError"]

\* `original_hash == final_hash`
same_hash_parity(original_hash, final_hash) ==
    original_hash % 2 = final_hash % 2

same_hash(original_hash, final_hash) == original_hash = final_hash

\* Verifier.verify_split; ds is what _find_differences returns
verify_split(original, candidate, ds) ==
    LET original_hash == get_content_hash(original)
        final_hash == get_content_hash(candidate)
    IN  IF original_hash = None \/ final_hash = None
        THEN VerificationError
        ELSE IF same_hash(original_hash, final_hash)
        THEN VerificationResult(TRUE, <<>>) @@
             [original_hash |-> original_hash, final_hash |-> final_hash]
        ELSE VerificationResult(FALSE, ds) @@
             [original_hash |-> original_hash, final_hash |-> final_hash]

InitVerify ==
    /\ GenIdle /\ ExecIdle /\ DiagIdle /\ EngIdle /\ CallIdle /\ RunIdle
    /\ ParseIdle /\ FixIdle
    /\ trees \in [{"original", "candidate"} -> Listings \cup {NoTree}]
    /\ vresult = <<>>
    /\ session = <<>>
    /\ restored = <<>>

VerifySplit(ds) ==
    /\ trees # <<>>
    /\ vresult = <<>>
    /\ vresult' = verify_split(trees["original"], trees["candidate"], ds)
    /\ UNCHANGED <<trees, session, restored, genVars, execVars, diagVars,
                   engVars, callVars, runVars,
                   parseVars, fixVars>>

NextVerify == \E ds \in DiffSamples : VerifySplit(ds)

SpecVerify == InitVerify /\ [][NextVerify]_vars

(***************************************************************************)
(* SpecSession: session.py, serialize_session and deserialize_session.     *)
(* A dataclass is a record of its fields, an Enum member a record of its   *)
(* class and value, a dict a record of its keys, a list or tuple a         *)
(* sequence.  A value of type `X | None` is Null or <<x>>.                 *)
(***************************************************************************)
Null == <<>>

Some(x) == <<x>>

\* [f(x) for x in xs]
Map(f(_), xs) == [i \in 1..Len(xs) |-> f(xs[i])]

\* data.get(key, default)
Get(data, key, default) ==
    IF key \in DOMAIN data THEN data[key] ELSE default

\* SessionPhase(value): the member with that value
SessionPhase(value) == [enum |-> "SessionPhase", value |-> value]

ResolutionStrategyValues == {"stack", "merge", "duplicate", "manual"}

ResolutionStrategy(value) == [enum |-> "ResolutionStrategy", value |-> value]

LineRange(start, end) == [start |-> start, end |-> end]

FileChange(path, ranges, is_entire_file) ==
    [path |-> path, line_ranges |-> ranges, is_entire_file |-> is_entire_file,
     additions |-> Len(ranges), deletions |-> 1]

Intent(id, files, is_confirmed, branch_name, pr_number) ==
    [id |-> id, name |-> "Intent", description |-> "", files |-> files,
     dependencies |-> IF id = "b" THEN <<"a">> ELSE <<>>,
     is_confirmed |-> is_confirmed, branch_name |-> branch_name,
     pr_number |-> pr_number,
     pr_url |-> IF pr_number = Null THEN Null ELSE Some("url")]

MultiIntentConflict(ranges, suggested_strategy, chosen_strategy) ==
    [file_path |-> "f", intent_ids |-> <<"a", "b">>,
     overlapping_ranges |-> ranges,
     suggested_strategy |-> suggested_strategy,
     resolved |-> chosen_strategy # Null,
     chosen_strategy |-> chosen_strategy]

ChangePlan(intents, conflicts) ==
    [intents |-> intents, conflicts |-> conflicts,
     execution_order |-> Map(LAMBDA i : i.id, intents),
     is_validated |-> conflicts = <<>>]

\* _serialize_intent
serialize_file(f) ==
    [path |-> f.path,
     line_ranges |-> Map(LAMBDA lr : <<lr.start, lr.end>>, f.line_ranges),
     is_entire_file |-> f.is_entire_file,
     additions |-> f.additions,
     deletions |-> f.deletions]

serialize_intent(intent) ==
    [id |-> intent.id, name |-> intent.name,
     description |-> intent.description,
     files |-> Map(serialize_file, intent.files),
     dependencies |-> intent.dependencies,
     is_confirmed |-> intent.is_confirmed,
     branch_name |-> intent.branch_name,
     pr_number |-> intent.pr_number,
     pr_url |-> intent.pr_url]

\* _deserialize_intent
deserialize_line_range_swapped(lr) == LineRange(lr[2], lr[1])

deserialize_line_range(lr) == LineRange(lr[1], lr[2])

deserialize_file(f) ==
    [path |-> f.path,
     line_ranges |-> Map(deserialize_line_range, Get(f, "line_ranges", <<>>)),
     is_entire_file |-> Get(f, "is_entire_file", FALSE),
     additions |-> Get(f, "additions", 0),
     deletions |-> Get(f, "deletions", 0)]

deserialize_intent(data) ==
    [id |-> data.id, name |-> data.name,
     description |-> Get(data, "description", ""),
     files |-> Map(deserialize_file, Get(data, "files", <<>>)),
     dependencies |-> Get(data, "dependencies", <<>>),
     is_confirmed |-> Get(data, "is_confirmed", FALSE),
     branch_name |-> Get(data, "branch_name", Null),
     pr_number |-> Get(data, "pr_number", Null),
     pr_url |-> Get(data, "pr_url", Null)]

\* _serialize_change_plan
serialize_conflict(c) ==
    [file_path |-> c.file_path,
     intent_ids |-> c.intent_ids,
     overlapping_ranges |->
         Map(LAMBDA r : <<r[1], r[2], <<r[3].start, r[3].end>>>>,
             c.overlapping_ranges),
     suggested_strategy |-> c.suggested_strategy.value,
     resolved |-> c.resolved,
     chosen_strategy |-> IF c.chosen_strategy # Null
                         THEN Some(c.chosen_strategy[1].value) ELSE Null]

serialize_change_plan(plan) ==
    IF plan = Null THEN Null
    ELSE Some([intents |-> Map(serialize_intent, plan[1].intents),
               conflicts |-> Map(serialize_conflict, plan[1].conflicts),
               execution_order |-> plan[1].execution_order,
               is_validated |-> plan[1].is_validated])

\* _deserialize_change_plan
deserialize_conflict(c) ==
    [file_path |-> c.file_path,
     intent_ids |-> c.intent_ids,
     overlapping_ranges |->
         Map(LAMBDA r : <<r[1], r[2], LineRange(r[3][1], r[3][2])>>,
             Get(c, "overlapping_ranges", <<>>)),
     suggested_strategy |-> ResolutionStrategy(c.suggested_strategy),
     resolved |-> Get(c, "resolved", FALSE),
     chosen_strategy |->
         LET v == Get(c, "chosen_strategy", Null)
         IN  IF v # Null /\ v[1] # "" THEN Some(ResolutionStrategy(v[1]))
             ELSE Null]

deserialize_change_plan(data) ==
    IF data = Null THEN Null
    ELSE Some([intents |-> Map(deserialize_intent,
                               Get(data[1], "intents", <<>>)),
               conflicts |-> Map(deserialize_conflict,
                                 Get(data[1], "conflicts", <<>>)),
               execution_order |-> Get(data[1], "execution_order", <<>>),
               is_validated |-> Get(data[1], "is_validated", FALSE)])

\* _serialize_backtrack
serialize_backtrack(backtrack) ==
    [from_phase |-> backtrack.from_phase.value,
     to_phase |-> backtrack.to_phase.value,
     reason |-> backtrack.reason,
     attempt |-> backtrack.attempt,
     preserved_intents |-> backtrack.preserved_intents,
     preserved_files |-> backtrack.preserved_files]

\* _deserialize_backtrack
deserialize_backtrack(data) ==
    [from_phase |-> SessionPhase(data.from_phase),
     to_phase |-> SessionPhase(data.to_phase),
     reason |-> data.reason,
     attempt |-> data.attempt,
     preserved_intents |-> Get(data, "preserved_intents", <<>>),
     preserved_files |-> Get(data, "preserved_files", <<>>)]

serialize_session(sn) ==
    [id |-> sn.id,
     branch |-> sn.branch,
     base_branch |-> sn.base_branch,
     phase |-> sn.phase.value,
     original_tree_hash |-> sn.original_tree_hash,
     discovered_intents |-> Map(serialize_intent, sn.discovered_intents),
     confirmed_intents |-> Map(serialize_intent, sn.confirmed_intents),
     change_plan |-> serialize_change_plan(sn.change_plan),
     created_branches |-> sn.created_branches,
     created_prs |-> sn.created_prs,
     backtracks |-> Map(serialize_backtrack, sn.backtracks),
     current_attempt |-> sn.current_attempt,
     max_attempts |-> sn.max_attempts,
     total_tokens_used |-> sn.total_tokens_used,
     total_cost |-> sn.total_cost,
     max_cost |-> sn.max_cost,
     auto_mode |-> sn.auto_mode,
     auto_hint |-> sn.auto_hint,
     babysit_mode |-> sn.babysit_mode,
     dry_run |-> sn.dry_run,
     verbose |-> sn.verbose,
     no_verify_build |-> sn.no_verify_build,
     no_pr |-> sn.no_pr]

deserialize_session(data) ==
    [id |-> data.id,
     branch |-> data.branch,
     base_branch |-> data.base_branch,
     phase |-> SessionPhase(data.phase),
     original_tree_hash |-> Get(data, "original_tree_hash", ""),
     discovered_intents |->
         Map(deserialize_intent, Get(data, "discovered_intents", <<>>)),
     confirmed_intents |->
         Map(deserialize_intent, Get(data, "confirmed_intents", <<>>)),
     change_plan |-> deserialize_change_plan(Get(data, "change_plan", Null)),
     created_branches |-> Get(data, "created_branches", <<>>),
     created_prs |-> Get(data, "created_prs", <<>>),
     backtracks |-> Map(deserialize_backtrack, Get(data, "backtracks", <<>>)),
     current_attempt |-> Get(data, "current_attempt", 1),
     max_attempts |-> Get(data, "max_attempts", 5),
     total_tokens_used |-> Get(data, "total_tokens_used", 0),
     total_cost |-> Get(data, "total_cost", 0),
     max_cost |-> Get(data, "max_cost", Null),
     auto_mode |-> Get(data, "auto_mode", FALSE),
     auto_hint |-> Get(data, "auto_hint", ""),
     babysit_mode |-> Get(data, "babysit_mode", FALSE),
     dry_run |-> Get(data, "dry_run", FALSE),
     verbose |-> Get(data, "verbose", FALSE),
     no_verify_build |-> Get(data, "no_verify_build", FALSE),
     no_pr |-> Get(data, "no_pr", FALSE)]

\* the sessions the round trip is checked on
MaxRanges == 2    \* line ranges of a file change

RangeSeqs ==
    {rs \in SeqsUpTo({LineRange(1, 2), LineRange(4, 4)}, MaxRanges) :
        \A i, j \in 1..Len(rs) : i < j => rs[i].end < rs[j].start}

SessionFiles ==
    {<<>>} \cup {<<FileChange("f", rs, rs = <<>>)>> : rs \in RangeSeqs}

SessionIntents ==
    {<<>>} \cup
    {<<Intent("a", fs, TRUE, Some("topic"), Some(7))>> : fs \in SessionFiles}
    \cup
    {<<Intent("a", fs, FALSE, Null, Null), Intent("b", <<>>, FALSE, Null, Null)>> :
        fs \in SessionFiles}

SessionConflicts ==
    {<<>>} \cup
    {<<MultiIntentConflict(<<<<"a", "b", LineRange(1, 2)>>>>,
                           ResolutionStrategy("stack"), chosen)>> :
        chosen \in {Null} \cup
                   {Some(ResolutionStrategy(v)) : v \in ResolutionStrategyValues}}

SessionPlans(intents) ==
    {Null} \cup {Some(ChangePlan(intents, cs)) : cs \in SessionConflicts}

SessionBacktracks ==
    {<<>>} \cup
    {<<BacktrackInfo(SessionPhase("execution"), SessionPhase(to), 2) @@
       [reason |-> "Hash mismatch", preserved_intents |-> <<"a">>,
        preserved_files |-> <<>>]>> : to \in {"planning", "discovery"}}

SessionsWith(intents) ==
    {[id |-> "20260101-000000-abcdef12",
      branch |-> original_branch,
      base_branch |-> base_branch,
      phase |-> SessionPhase(ph),
      original_tree_hash |-> IF ph = "init" THEN "" ELSE "0123456789abcdef",
      discovered_intents |-> intents,
      confirmed_intents |-> IF ph \in {"init", "discovery"} THEN <<>>
                            ELSE intents,
      change_plan |-> plan,
      created_branches |-> IF ph = "complete" THEN <<"topic">> ELSE <<>>,
      created_prs |-> <<>>,
      backtracks |-> bts,
      current_attempt |-> Len(bts) + 1,
      max_attempts |-> max_attempts,
      total_tokens_used |-> Len(intents),
      total_cost |-> 0,
      max_cost |-> mc,
      auto_mode |-> am,
      auto_hint |-> IF am THEN "hint" ELSE "",
      babysit_mode |-> FALSE,
      dry_run |-> ~am,
      verbose |-> FALSE,
      no_verify_build |-> am,
      no_pr |-> TRUE] :
        ph \in SessionPhaseValues, plan \in SessionPlans(intents),
        bts \in SessionBacktracks, mc \in {Null, Some(5)}, am \in BOOLEAN}

Sessions == UNION {SessionsWith(intents) : intents \in SessionIntents}

InitSession ==
    /\ GenIdle /\ ExecIdle /\ DiagIdle /\ EngIdle /\ CallIdle /\ RunIdle
    /\ ParseIdle /\ FixIdle
    /\ trees = <<>>
    /\ vresult = <<>>
    /\ session \in Sessions
    /\ restored = <<>>

\* save_session and load_session: the session goes through its dict
RoundTrip ==
    /\ session # <<>>
    /\ restored = <<>>
    /\ restored' = deserialize_session(serialize_session(session))
    /\ UNCHANGED <<trees, vresult, session, genVars, execVars, diagVars,
                   engVars, callVars, runVars,
                   parseVars, fixVars>>

NextSession == RoundTrip

SpecSession == InitSession /\ [][NextSession]_vars

(***************************************************************************)
(* Claims on the range filter and the hunk synthesizer (SpecGen)           *)
(***************************************************************************)
\* the virtual new-file position of line i of hunk h as the claim words it:
\* its new number for a context/addition line, for a deletion the new
\* number of the nearest preceding context/addition line, h.new_start when
\* none precedes
VirtualPos(h, i) ==
    IF ~is_deletion(h.lines[i]) THEN h.lines[i].new_line_num
    ELSE LET P == {j \in 1..(i - 1) : ~is_deletion(h.lines[j])} IN
         IF P = {} THEN h.new_start
         ELSE h.lines[CHOOSE j \in P : \A k \in P : k <= j].new_line_num

PosInRanges(n, ranges) ==
    \E k \in 1..Len(ranges) : ranges[k][1] <= n /\ n <= ranges[k][2]

\* the lines of h whose virtual position is inside a range, in hunk order
LinesInRanges(h, ranges) ==
    LET keep(l) == \E i \in 1..Len(h.lines) :
                      h.lines[i] = l /\ PosInRanges(VirtualPos(h, i), ranges)
    IN  SelectSeq(h.lines, keep)

ChangeInRanges(h, ranges) ==
    \E i \in 1..Len(h.lines) :
        /\ ~is_context(h.lines[i])
        /\ PosInRanges(VirtualPos(h, i), ranges)

\* C5: when an addition or deletion of the hunk has its virtual position in a
\* requested range, _filter_hunk_for_ranges returns a non-empty list, and the
\* lines of that list that lie in a range are exactly the in-range lines of the
\* hunk, each once and in hunk order.
C5_NoSilentLoss ==
    (gpc = "done" /\ ChangeInRanges(hunk, line_ranges)) =>
        /\ filtered # <<>>
        /\ LET inr == LinesInRanges(hunk, line_ranges)
               isIn(l) == InList(l, inr)
           IN  SelectSeq(filtered, isIn) = inr

\* C5 witness: a call where a deletion that opens the hunk is selected through
\* the header's new start, and part of the hunk is left out
C5_Witness ==
    /\ gpc = "done"
    /\ is_deletion(hunk.lines[1])
    /\ PosInRanges(hunk.new_start, line_ranges)
    /\ Len(hunk.lines) > 1
    /\ filtered # <<>>
    /\ Len(filtered) < Len(hunk.lines)

\* the body lines of a synthesized hunk (the list without its header line)
BodyOf(p) == Tail(p)

CountTags(body, tags) == Cardinality({i \in 1..Len(body) : body[i].tag \in tags})

\* C6: a non-empty filtered list gives a hunk whose header old count is the
\* number of context and deletion lines of the emitted body and whose new count
\* is the number of context and addition lines of it; an empty list gives no
\* hunk.
C6_HeaderCountsByRecount ==
    gpc = "done" =>
        IF filtered = <<>> THEN hunk_patch = <<>>
        ELSE /\ hunk_patch # <<>>
             /\ Len(BodyOf(hunk_patch)) = Len(filtered)
             /\ hunk_patch[1].old_count = CountTags(BodyOf(hunk_patch), {" ", "-"})
             /\ hunk_patch[1].new_count = CountTags(BodyOf(hunk_patch), {" ", "+"})

\* C6 witness: a synthesized hunk whose counts differ from the counts of the
\* hunk it was cut from
C6_Witness ==
    /\ gpc = "done"
    /\ hunk_patch # <<>>
    /\ hunk_patch[1].old_count < hunk.old_count
    /\ hunk_patch[1].new_count < hunk.new_count

(***************************************************************************)
(* Claims on Executor._apply_intent_patches (SpecExec)                     *)
(***************************************************************************)
\* the new-file positions of the changed lines of a parsed file diff (for a
\* deletion its virtual position)
ChangedPositions(fd) ==
    UNION {{VirtualPos(fd.hunks[k], i) :
                i \in {j \in 1..Len(fd.hunks[k].lines) :
                          ~is_context(fd.hunks[k].lines[j])}} :
           k \in 1..Len(fd.hunks)}

IsModifiedFile(fd) == ~fd.is_new_file /\ ~fd.is_deleted /\ ~fd.is_binary

\* the FileChanges applied so far were single ranges, pairwise disjoint, and
\* together they name every changed line of the file
PartitionApplied ==
    /\ last_fc # <<>>
    /\ part_ok
    /\ ChangedPositions(file_diff) \subseteq covered

\* C1: for a modified file, once one patch per range of a partition of the
\* changed new-file positions has been generated and applied in order, starting
\* from the pre-diff content, the file holds exactly the post-diff content.
C1_CoveragePartition ==
    (IsModifiedFile(file_diff) /\ PartitionApplied /\ outcome # "raised") =>
        work_file = source_file

\* C7: a FileChange that is whole-file, or whose range patch is not empty, is
\* never left unapplied with the loop going on to the commit: the patch was
\* applied, the lines were overlaid, the file was copied, or ExecutionError was
\* raised.
C7_NoSilentSkip ==
    (/\ last_fc # <<>>
     /\ \/ last_fc[1].is_entire_file
        \/ (/\ last_fc[1].line_ranges # <<>>
            /\ last_fc[1].in_diff
            /\ generate_patch_for_lines(file_diff, last_fc[1].line_ranges) # <<>>))
    => outcome \in {"applied", "overlaid", "copied", "raised"}

(***************************************************************************)
(* Claims on Verifier.diagnose_failure (SpecDiag)                          *)
(***************************************************************************)
DistinctFiles(ds) == {ds[i].file : i \in 1..Len(ds)}

ChangeRecords(ds) ==
    {<<i, j>> \in (1..Len(ds)) \X (1..SetMax(ChangeCounts)) :
        j <= Len(ds[i].changes)}

FileLineEntries(details) ==
    {i \in 1..Len(details) : details[i].kind = "file_line"}

\* C10: on a failed result, no difference records give high / backtrack to
\* discovery; otherwise F files and N added/removed line records give low /
\* retry planning when F = 1 and N <= 5, else medium / retry planning with
\* context when F <= 3 and N <= 20, else high / backtrack to discovery; details
\* never lists more than 5 file:line entries.
C10_DecisionTable ==
    (diagnosis # <<>> /\ ~verification_result.passed) =>
        LET ds == verification_result.differences
            F == Cardinality(DistinctFiles(ds))
            N == Cardinality(ChangeRecords(ds))
            verdict == <<diagnosis.severity, diagnosis.suggested_action>>
        IN  /\ verdict =
                 IF ds = <<>> THEN <<"high", "backtrack_to_phase1">>
                 ELSE IF F = 1 /\ N <= 5 THEN <<"low", "retry_phase2">>
                 ELSE IF F <= 3 /\ N <= 20
                      THEN <<"medium", "retry_phase2_with_context">>
                 ELSE <<"high", "backtrack_to_phase1">>
            /\ Cardinality(FileLineEntries(diagnosis.details)) <= 5

\* six records over three files with twenty changed lines: classified medium,
\* and the sixth record is not listed
C10_Witness ==
    /\ diagnosis # <<>>
    /\ ~verification_result.passed
    /\ Len(verification_result.differences) > 5
    /\ total_changes(verification_result.differences) = 20
    /\ num_files(verification_result.differences) = 3
    /\ diagnosis.severity = "medium"
    /\ Cardinality(FileLineEntries(diagnosis.details)) = 5

(***************************************************************************)
(* Claims on SplitEngine.run and Executor.execute (Spec)                   *)
(***************************************************************************)
\* C2: the session is complete, and run has returned True, only after the
\* content hash of the split result was compared with that of the original
\* branch and found equal, in a dry run too.
C2_GoldenRule ==
    (phase = "complete" \/ ret = "true") => compared

\* C3: no more than max_attempts executions are ever started; and a run whose
\* every attempt ended in a failed verification (no exception, no abort by the
\* user) has made exactly max_attempts executions when it returns, and it
\* returns False with the phase failed.
C3_AttemptExhaustion ==
    /\ executions <= max_attempts
    /\ (pc = "done" /\ ret = "false" /\ ~exception_seen /\ ~aborted) =>
           /\ executions = max_attempts
           /\ phase = "failed"

C3_Witness ==
    /\ pc = "done"
    /\ ret = "false"
    /\ ~exception_seen
    /\ ~aborted
    /\ executions = max_attempts
    /\ phase = "failed"
    /\ current_attempt = max_attempts + 1

\* C4: no branch is deleted that the run did not create, and the original and
\* the base branch keep the content they had before the run.
C4_OriginalUntouched ==
    /\ foreign_deleted = {}
    /\ branches[original_branch] = "orig"
    /\ branches[base_branch] = "other"

\* the edges of the phase graph as claimed
ClaimedEdges ==
    {<<"init", "discovery">>, <<"discovery", "planning">>,
     <<"planning", "execution">>, <<"execution", "complete">>,
     <<"execution", "failed">>, <<"execution", "planning">>,
     <<"execution", "discovery">>}

\* C8 as stated: every change of session.phase is one of the claimed edges.
C8_PhaseGraph == transitions \subseteq ClaimedEdges

\* C8: every change of session.phase is one of the claimed edges, or goes
\* from discovery or planning to failed (the attempts are used up by an
\* exception in that phase).
C8_PhaseGraphWithFailures ==
    transitions \subseteq
        (ClaimedEdges \cup {<<"discovery", "failed">>, <<"planning", "failed">>})

C8_Witness ==
    /\ pc = "done"
    /\ phase = "failed"
    /\ <<"planning", "failed">> \in transitions
    /\ <<"discovery", "failed">> \notin transitions
    /\ <<"execution", "planning">> \in transitions

\* C9: each failed verification that leaves attempts appends exactly one
\* BacktrackInfo, from execution to planning or discovery, with the attempt
\* number.
C9_BacktrackLog ==
    /\ Len(backtracks) = handled
    /\ \A i \in 1..Len(backtracks) :
          /\ backtracks[i].from_phase = "execution"
          /\ backtracks[i].to_phase \in {"planning", "discovery"}
          /\ backtracks[i].attempt \in 2..max_attempts

(***************************************************************************)
(* Claims on one call of Executor.execute (SpecCall)                       *)
(***************************************************************************)
\* C11: when execute raises after it created branches, every branch it
\* created is deleted and the original branch is checked out; and a call
\* that is not a dry run ends, returned or raised, with HEAD on the original
\* branch.
C11_CleanupOnError ==
    /\ (xpc = "raised" /\ made # {}) =>
           /\ \A b \in made : ~branch_exists(branches, b)
           /\ head = original_branch
    /\ (xpc \in {"returned", "raised"} /\ ~dry_run) => head = original_branch

\* C12: in a call that is not a dry run the k-th branch created is the
\* branch of the k-th intent of execution_order; the first is created from
\* the base branch, each later one from the branch of the intent before it,
\* and only after _apply_intent_patches has returned for all intents before.
C12_StackingOrder ==
    ~dry_run =>
        \A k \in 1..Len(creations) :
            /\ k <= Len(change_plan)
            /\ creations[k].name = change_plan[k]
            /\ creations[k].from =
                   (IF k = 1 THEN base_branch ELSE change_plan[k - 1])
            /\ creations[k].patched = k - 1

C12_Witness ==
    /\ ~dry_run
    /\ xpc = "returned"
    /\ Len(change_plan) = 2
    /\ Len(creations) = 2
    /\ creations[2].from = change_plan[1]
    /\ creations[2].from # base_branch
    /\ patched = 2

(***************************************************************************)
(* Claims on the run loop and its collaborators (SpecRun)                  *)
(***************************************************************************)
\* C13: a failed verification that brings the attempt counter to 3 or more
\* without exhausting the attempts raises the tier by one step (tier3
\* stays); no discover or plan call made once the counter has reached 3
\* uses tier1; the tier never decreases; with a pinned model it never
\* changes.
C13_TierEscalation ==
    [][ /\ (handled' = handled + 1 /\ current_attempt' >= 3 /\ ~model_override)
            => current_tier' = (IF current_tier < 3 THEN current_tier + 1
                                ELSE 3)
        /\ ~weak_call'
        /\ current_tier' >= current_tier
        /\ model_override => current_tier' = current_tier ]_vars

\* C15: once the operator has aborted at a confirmation point ("n" at the
\* proceed prompt, "a" at the escape hatch), run performs no further
\* discovery, planning or execution step.
C15_Cancellation == cancel # "ignored"

\* C16: once a request to the AI has been refused for its cost, the run has
\* ended as a failure and no phase is started or retried.
C16_BudgetFatal ==
    /\ budget # "retried"
    /\ budget = "refused" => (pc = "done" /\ ret = "false")

\* C17: the phase of the last save_session is the current phase or the one
\* immediately before it (a session that was never saved counts as saved in
\* its first phase).
C17_SavedEveryTransition ==
    LET last_saved == IF saved_phase = "none" THEN "init" ELSE saved_phase
    IN  last_saved \in {phase, prev_phase}

(***************************************************************************)
(* Claims on Verifier.verify_split (SpecVerify)                            *)
(***************************************************************************)
\* C14: a result of verify_split has passed = true exactly when the content
\* hashes of the two refs are equal; it records these two hashes, and a
\* passed result has no differences.
C14_VerifySplit ==
    (vresult # <<>> /\ vresult # VerificationError) =>
        /\ vresult.passed <=>
               (get_content_hash(trees["original"]) =
                get_content_hash(trees["candidate"]))
        /\ vresult.original_hash = get_content_hash(trees["original"])
        /\ vresult.final_hash = get_content_hash(trees["candidate"])
        /\ vresult.passed => vresult.differences = <<>>

C14_Witness ==
    /\ vresult # <<>> /\ vresult # VerificationError
    /\ ~vresult.passed
    /\ vresult.differences # <<>>
    /\ vresult.original_hash # vresult.final_hash
    /\ vresult.original_hash % 2 = vresult.final_hash % 2

(***************************************************************************)
(* Claims on the session file (SpecSession)                                *)
(***************************************************************************)
\* C18: deserialize_session(serialize_session(s)) equals s field for field,
\* with the phase, the line ranges of the intents, the change plan with its
\* conflicts and chosen strategies, and the backtrack log.
C18_SessionRoundTrip ==
    restored # <<>> =>
        /\ DOMAIN restored = DOMAIN session
        /\ \A k \in DOMAIN session : restored[k] = session[k]

C18_Witness ==
    /\ restored # <<>>
    /\ session.phase = SessionPhase("execution")
    /\ Len(session.discovered_intents) = 2
    /\ Len(session.discovered_intents[1].files) = 1
    /\ Len(session.discovered_intents[1].files[1].line_ranges) = 2
    /\ session.change_plan # Null
    /\ Len(session.change_plan[1].conflicts) = 1
    /\ session.change_plan[1].conflicts[1].chosen_strategy =
           Some(ResolutionStrategy("merge"))
    /\ Len(session.backtracks) = 1
    /\ restored.change_plan = session.change_plan
    /\ restored.backtracks = session.backtracks


(***************************************************************************)
(* Claims on run merging and header starts (SpecGen)                       *)
(***************************************************************************)
\* the old-file line numbers of the context and deletion lines of a list, in
\* list order
OldNumbers(ls) ==
    LET old(l) == ~is_addition(l)
        sel == SelectSeq(ls, old)
    IN  [i \in 1..Len(sel) |-> sel[i].old_line_num]

\* C19: when two lines of the hunk are both in the list the filter returns,
\* every context line between them in the hunk is in the list too, and the
\* context and deletion lines of the list carry consecutive old-file line
\* numbers.
C19_NoMergeAcrossOmitted ==
    gpc = "done" =>
        /\ \A i \in 1..Len(hunk.lines) : \A j \in 1..Len(hunk.lines) :
             \A k \in 1..Len(hunk.lines) :
               (/\ i < k /\ k < j
                /\ InList(hunk.lines[i], filtered)
                /\ InList(hunk.lines[j], filtered)
                /\ is_context(hunk.lines[k]))
               => InList(hunk.lines[k], filtered)
        /\ LET on == OldNumbers(filtered) IN
           \A i \in 1..(Len(on) - 1) : on[i + 1] = on[i] + 1

\* C20: the header of a synthesized hunk starts the old side at the old number
\* of the first context-or-deletion line of the body and the new side at the
\* new number of the first context-or-addition line of the body.
C20_HeaderStarts ==
    (gpc = "done" /\ hunk_patch # <<>>) =>
        /\ first_old(filtered) # None
              => hunk_patch[1].old_start = first_old(filtered)
        /\ first_new(filtered) # None
              => hunk_patch[1].new_start = first_new(filtered)


(***************************************************************************)
(* Claims on parse_diff (SpecParse)                                        *)
(***************************************************************************)
\* the positions in the text of the "@@" lines
HeaderIdx(text) == {i \in 1..Len(text) : text[i].k = "@@"}

\* number of "@@" lines of the text up to position i: the hunk line i is in
HunkOf(text, i) == Cardinality({x \in HeaderIdx(text) : x <= i})

\* the body lines of hunk h of the text, as the DiffLine each should give
BodyOfHunk(text, h) ==
    LET idx == [i \in 1..Len(text) |-> i]
        in_h(i) == /\ HunkOf(text, i) = h
                   /\ "mark" \in DOMAIN text[i]
        sel == SelectSeq(idx, in_h)
    IN  [n \in 1..Len(sel) |-> [content |-> text[sel[n]].content,
                                line_type |-> text[sel[n]].mark]]

\* a parsed line without its numbers
Unnumbered(l) == [content |-> l.content, line_type |-> l.line_type]

\* the hunks of the text whose header matches the pattern, in text order
MatchingHunks(text) ==
    LET hs == [h \in 1..Cardinality(HeaderIdx(text)) |-> h]
        ok(h) == \E i \in HeaderIdx(text) :
                     HunkOf(text, i) = h /\ text[i].matches
    IN  SelectSeq(hs, ok)

WellFormedText(text) == \A i \in HeaderIdx(text) : text[i].matches

\* C21: when a "@@" line of the text does not match the header pattern, the
\* file's hunk list holds exactly the hunks whose header matches, each once
\* and in order, and every line of a parsed hunk is a body line of that hunk.
C21_MalformedHeaderDropped ==
    (parsed # <<>> /\ ~WellFormedText(diff_lines)) =>
        LET mh == MatchingHunks(diff_lines)
            hunks == parsed[1].hunks
        IN  /\ Len(hunks) = Len(mh)
            /\ \A n \in 1..Len(hunks) : \A x \in 1..Len(hunks[n].lines) :
                   hunks[n].lines[x].content.h = mh[n]

\* C22: for a text whose headers all match, every hunk is parsed into one
\* DiffLine per body line (the rest of the line as content, the mark as
\* kind), and its old count is its number of context and deletion lines
\* and its new count its number of context and addition lines.
C22_ParsedHunkInvariant ==
    (parsed # <<>> /\ WellFormedText(diff_lines)) =>
        LET hunks == parsed[1].hunks IN
        /\ Len(hunks) = Cardinality(HeaderIdx(diff_lines))
        /\ \A n \in 1..Len(hunks) :
              /\ [x \in 1..Len(hunks[n].lines) |-> Unnumbered(hunks[n].lines[x])]
                    = BodyOfHunk(diff_lines, n)
              /\ hunks[n].old_count = CountOld(hunks[n].lines)
              /\ hunks[n].new_count = CountNew(hunks[n].lines)


(***************************************************************************)
(* Claims on re-discovery (SpecRun) and on termination (SpecResume)        *)
(***************************************************************************)
\* C23: the intents that rediscover returned after a failed verification are
\* never overwritten by a discover call before they were confirmed.
C23_RediscoveryUsed == rediscovery # "replaced"

\* C24: run returns, from every session that enters the while loop.
C24_RunTerminates == <>(pc = "done")


(***************************************************************************)
(* Claims on generate_patch_for_lines (SpecExec)                           *)
(***************************************************************************)
\* every hunk of patch p holds an addition or a deletion line
EveryHunkChanges(p) ==
    \A i \in 1..Len(p) :
        p[i].tag = "@@" =>
            \E j \in (i + 1)..Len(p) :
                /\ p[j].tag \in {"+", "-"}
                /\ \A x \in (i + 1)..j : p[x].tag # "@@"

\* C25: for a file that is neither new nor binary, generate_patch_for_lines
\* returns None when no addition or deletion of the file diff has its
\* position in the requested ranges, and every hunk of a patch it returns
\* holds an addition or a deletion.
C25_PatchCarriesChange ==
    (/\ last_fc # <<>>
     /\ ~last_fc[1].is_entire_file
     /\ last_fc[1].line_ranges # <<>>
     /\ last_fc[1].in_diff
     /\ ~file_diff.is_new_file /\ ~file_diff.is_binary) =>
        LET p == generate_patch_for_lines(file_diff, last_fc[1].line_ranges) IN
        /\ (ChangedPositions(file_diff) \cap LinesToCopy(last_fc[1].line_ranges) = {})
              => p = <<>>
        /\ EveryHunkChanges(p)


(***************************************************************************)
(* Claims on the context padding of the range filter (SpecGen)             *)
(***************************************************************************)
InRange(i) == PosInRanges(VirtualPos(hunk, i), line_ranges)

Emitted(i) == InList(hunk.lines[i], filtered)

\* the context lines of the hunk strictly between positions a and b
ContextBetween(a, b) ==
    {x \in (a + 1)..(b - 1) : is_context(hunk.lines[x])}

\* line k is one of the three context lines nearest before an in-range line
PadsBefore(k) ==
    \E j \in (k + 1)..Len(hunk.lines) :
        /\ InRange(j)
        /\ \A x \in k..(j - 1) : ~InRange(x)
        /\ Cardinality(ContextBetween(k, j)) < 3

\* line k is one of the three context lines nearest after an in-range line
PadsAfter(k) ==
    \E i \in 1..(k - 1) :
        /\ InRange(i)
        /\ \A x \in (i + 1)..k : ~InRange(x)
        /\ Cardinality(ContextBetween(i, k)) < 3

\* C26: every line the filter emits that is not in a range is a context
\* line, one of the three nearest before an in-range line or of the three
\* nearest after one; the output holds lines of the hunk in hunk order,
\* none twice.
C26_ContextPadding ==
    gpc = "done" =>
        /\ \A k \in 1..Len(hunk.lines) :
              (Emitted(k) /\ ~InRange(k)) =>
                  /\ is_context(hunk.lines[k])
                  /\ PadsBefore(k) \/ PadsAfter(k)
        /\ LET kept(l) == InList(l, filtered)
           IN  filtered = SelectSeq(hunk.lines, kept)

\* C26 witness: four context lines stand before the first in-range line, and
\* the filter emits three of them
C26_Witness ==
    /\ gpc = "done"
    /\ \E j \in 1..Len(hunk.lines) :
          /\ InRange(j)
          /\ \A x \in 1..(j - 1) : ~InRange(x) /\ is_context(hunk.lines[x])
          /\ j > 4
          /\ Cardinality({x \in 1..(j - 1) : Emitted(x)}) = 3
          /\ ~Emitted(1)


(***************************************************************************)
(* Claims on Executor._copy_lines_from_source (SpecExec)                   *)
(***************************************************************************)
\* the FileChange went to the line overlay: it names ranges of a file of the
\* diff, a patch was generated, and apply_patch rejected it
OverlayTried(fc, content) ==
    /\ ~fc.is_entire_file /\ fc.line_ranges # <<>> /\ fc.in_diff
    /\ generate_patch_for_lines(file_diff, fc.line_ranges) # <<>>
    /\ ~apply_patch(generate_patch_for_lines(file_diff, fc.line_ranges),
                    content)[1]

\* C27: a step in which the overlay succeeds leaves every covered line that
\* the source file has equal to the source line of that number, leaves every
\* other line the file had as it was, and does not shorten the file; when
\* the overlay is reached and fails, ExecutionError is raised and the file
\* is as before, and it fails when the source file cannot be read.
C27_LineOverlay ==
    [][ last_fc' # <<>> =>
          LET fc == last_fc'[1]
              cov == LinesToCopy(fc.line_ranges)
          IN  /\ outcome' = "overlaid" =>
                    /\ OverlayTried(fc, work_file)
                    /\ \A n \in cov :
                          n <= Len(source_file) =>
                              /\ n <= Len(work_file')
                              /\ work_file'[n] = source_file[n]
                    /\ \A n \in 1..Len(work_file) :
                          n \notin cov => work_file'[n] = work_file[n]
                    /\ Len(work_file') >= Len(work_file)
              /\ (OverlayTried(fc, work_file) /\ outcome \notin {"idle", "raised"}) =>
                    /\ outcome' \in {"overlaid", "raised"}
                    /\ source_file = <<>> => outcome' = "raised"
                    /\ outcome' = "raised" => work_file' = work_file
      ]_vars

\* C27 witness: an overlay that wrote a source line into the file and kept a
\* line outside the ranges, with a result that is not the source file
C27_Witness ==
    /\ outcome = "overlaid"
    /\ LET cov == LinesToCopy(last_fc[1].line_ranges) IN
       /\ \E n \in cov : n <= Len(source_file) /\ work_file[n] = source_file[n]
       /\ \E m \in 1..Len(work_file) : m \notin cov /\ work_file[m] # 0
    /\ work_file # source_file


(***************************************************************************)
(* Claims on the header starts and on the line numbering (SpecGen)         *)
(***************************************************************************)
\* the least element of a non-empty set of indices
First(S) == CHOOSE i \in S : \A j \in S : i <= j

\* C28: the starts of a synthesized header are (a) the two numbers of the
\* first filtered context line that carries both; (b) without such a line,
\* the first old number and that number shifted by new_start - old_start of
\* the originating hunk when only old numbers occur, the first new number
\* and that number shifted back when only new numbers occur, the first old
\* and the first new number when both occur; (c) the starts of the
\* originating hunk when no number occurs.
C28_StartRecovery ==
    (gpc = "done" /\ hunk_patch # <<>>) =>
        LET ctx == {i \in 1..Len(filtered) :
                       /\ is_context(filtered[i])
                       /\ filtered[i].old_line_num # None
                       /\ filtered[i].new_line_num # None}
            olds == {i \in 1..Len(filtered) : filtered[i].old_line_num # None}
            news == {i \in 1..Len(filtered) : filtered[i].new_line_num # None}
            offset == hunk.new_start - hunk.old_start
            os == hunk_patch[1].old_start
            ns == hunk_patch[1].new_start
        IN  IF ctx # {}
            THEN /\ os = filtered[First(ctx)].old_line_num
                 /\ ns = filtered[First(ctx)].new_line_num
            ELSE IF olds # {} /\ news = {}
            THEN /\ os = filtered[First(olds)].old_line_num
                 /\ ns = os + offset
            ELSE IF news # {} /\ olds = {}
            THEN /\ ns = filtered[First(news)].new_line_num
                 /\ os = ns - offset
            ELSE IF olds # {} /\ news # {}
            THEN /\ os = filtered[First(olds)].old_line_num
                 /\ ns = filtered[First(news)].new_line_num
            ELSE os = hunk.old_start /\ ns = hunk.new_start

\* C28 witness: a fragment of additions only, cut from a longer hunk whose
\* new side is shifted against its old side, that starts after the hunk's
\* first line
C28_Witness ==
    /\ gpc = "done"
    /\ hunk_patch # <<>>
    /\ \A i \in 1..Len(filtered) : is_addition(filtered[i])
    /\ Len(filtered) < Len(hunk.lines)
    /\ hunk.new_start # hunk.old_start
    /\ hunk_patch[1].new_start # hunk.new_start
    /\ hunk_patch[1].old_start = hunk_patch[1].new_start
                                    - (hunk.new_start - hunk.old_start)

\* the new-file line numbers of the context and addition lines of a list, in
\* list order
NewNumbers(ls) ==
    LET new(l) == ~is_deletion(l)
        sel == SelectSeq(ls, new)
    IN  [i \in 1..Len(sel) |-> sel[i].new_line_num]

\* C29: in a parsed hunk a context line carries an old and a new number, a
\* deletion only an old number, an addition only a new number; the old
\* numbers of the context and deletion lines are old_start, old_start + 1,
\* ... and the new numbers of the context and addition lines are new_start,
\* new_start + 1, ... in line order.
C29_LineNumbering ==
    gpc \in {"input", "done"} =>
        /\ \A i \in 1..Len(hunk.lines) :
              LET l == hunk.lines[i] IN
              /\ is_context(l) => l.old_line_num # None /\ l.new_line_num # None
              /\ is_deletion(l) => l.old_line_num # None /\ l.new_line_num = None
              /\ is_addition(l) => l.old_line_num = None /\ l.new_line_num # None
        /\ LET on == OldNumbers(hunk.lines) IN
           \A i \in 1..Len(on) : on[i] = hunk.old_start + i - 1
        /\ LET nn == NewNumbers(hunk.lines) IN
           \A i \in 1..Len(nn) : nn[i] = hunk.new_start + i - 1

\* C29 witness: a hunk with a deletion and two additions before a context
\* line, whose two numbers have drifted apart
C29_Witness ==
    /\ gpc = "input"
    /\ \E i \in 1..Len(hunk.lines) :
          /\ is_context(hunk.lines[i])
          /\ \E j \in 1..(i - 1) : is_deletion(hunk.lines[j])
          /\ \E j \in 1..(i - 1) : is_addition(hunk.lines[j])
          /\ hunk.lines[i].new_line_num - hunk.lines[i].old_line_num
                # hunk.new_start - hunk.old_start

(***************************************************************************)
(* Overlap repair of the discovered intents: _fix_overlapping_ranges,      *)
(* applied by _parse_intents to the intents read from the AI's answer.     *)
(* SpecFix draws the intents read from the answer and applies the repair.  *)
(***************************************************************************)
MaxFixLine == 3      \* highest line number an intent claims
MaxFixRanges == 2    \* line ranges of one file change of the answer

FixPaths == {"f", "g"}

\* the entries (intent_idx, range_idx, start, end) one file change appends
\* to file_ranges[p]; indexes count from 0 as enumerate() does
RangeEntries(intent_idx, change, p) ==
    IF change.is_entire_file \/ change.path # p
    THEN <<>>
    ELSE [j \in 1..Len(change.line_ranges) |->
             <<intent_idx, j - 1,
               change.line_ranges[j].start, change.line_ranges[j].end>>]

RECURSIVE EntriesOfFiles(_, _, _)
EntriesOfFiles(intent_idx, changes, p) ==
    IF changes = <<>>
    THEN <<>>
    ELSE RangeEntries(intent_idx, Head(changes), p)
             \o EntriesOfFiles(intent_idx, Tail(changes), p)

\* file_ranges[p] as the first loop of _fix_overlapping_ranges builds it
RECURSIVE file_ranges(_, _)
file_ranges(discovered, p) ==
    IF discovered = <<>>
    THEN <<>>
    ELSE file_ranges(SubSeq(discovered, 1, Len(discovered) - 1), p)
             \o EntriesOfFiles(Len(discovered) - 1,
                               discovered[Len(discovered)].files, p)

\* ranges.sort(key=lambda x: x[2]): a stable sort by the start line
RECURSIVE sort_by_start(_)
sort_by_start(entries) ==
    IF entries = <<>>
    THEN <<>>
    ELSE LET front == sort_by_start(SubSeq(entries, 1, Len(entries) - 1))
             last == entries[Len(entries)]
             k == Cardinality({i \in 1..Len(front) : front[i][3] <= last[3]})
         IN  SubSeq(front, 1, k) \o <<last>>
                 \o SubSeq(front, k + 1, Len(front))

\* f.line_ranges[next_range_idx] = LineRange(new_start, next_end) in every
\* file change of the intent on the path that has such an index
replace_range(discovered, p, next_intent, next_range_idx, lr) ==
    [discovered EXCEPT ![next_intent + 1].files =
        [m \in DOMAIN @ |->
            IF @[m].path = p /\ Len(@[m].line_ranges) > next_range_idx
            THEN [@[m] EXCEPT !.line_ranges[next_range_idx + 1] = lr]
            ELSE @[m]]]

\* f.line_ranges.pop(next_range_idx) in every file change of the intent on
\* the path that has such an index
pop_range(discovered, p, next_intent, next_range_idx) ==
    [discovered EXCEPT ![next_intent + 1].files =
        [m \in DOMAIN @ |->
            IF @[m].path = p /\ Len(@[m].line_ranges) > next_range_idx
            THEN [@[m] EXCEPT !.line_ranges =
                     SubSeq(@, 1, next_range_idx)
                         \o SubSeq(@, next_range_idx + 2, Len(@))]
            ELSE @[m]]]

\* the loop over the neighbours of the sorted list, from pair i on; the
\* entries are the ones read before the loop began
RECURSIVE DetectOverlaps(_, _, _, _)
DetectOverlaps(discovered, p, entries, i) ==
    IF i > Len(entries) - 1
    THEN discovered
    ELSE LET curr_intent == entries[i][1]
             curr_end == entries[i][4]
             next_intent == entries[i + 1][1]
             next_range_idx == entries[i + 1][2]
             next_start == entries[i + 1][3]
             next_end == entries[i + 1][4]
             new_start == curr_end + 1
             after ==
                 IF curr_end >= next_start /\ curr_intent # next_intent
                 THEN IF new_start <= next_end
                      THEN replace_range(discovered, p, next_intent,
                               next_range_idx, LineRange(new_start, next_end))
                      ELSE pop_range(discovered, p, next_intent,
                               next_range_idx)
                 ELSE discovered
         IN  DetectOverlaps(after, p, entries, i + 1)

\* one round of "for path, ranges in file_ranges.items()"
FixPath(discovered, original, p) ==
    LET entries == file_ranges(original, p)
    IN  IF Len(entries) < 2
        THEN discovered
        ELSE DetectOverlaps(discovered, p, sort_by_start(entries), 1)

fix_overlapping_ranges(discovered) ==
    FixPath(FixPath(discovered, discovered, "f"), discovered, "g")

\* the intents an answer can hold: two intents with one file change each
FixRanges ==
    {LineRange(s, e) : s \in 1..MaxFixLine, e \in 1..MaxFixLine} \cap
    {lr \in [start : 1..MaxFixLine, end : 1..MaxFixLine] : lr.start <= lr.end}

FixChanges ==
    {FileChange(p, rs, entire) :
        p \in FixPaths, rs \in SeqsUpTo(FixRanges, MaxFixRanges),
        entire \in BOOLEAN}

FixIntents ==
    {<<Intent("a", <<ca>>, FALSE, Null, Null),
       Intent("b", <<cb>>, FALSE, Null, Null)>> :
        ca \in FixChanges, cb \in FixChanges}

InitFix ==
    /\ raw_intents \in FixIntents
    /\ fixed_intents = <<>>
    /\ GenIdle /\ ExecIdle /\ DiagIdle /\ EngIdle /\ CallIdle /\ RunIdle
    /\ IoIdle /\ ParseIdle

\* _parse_intents hands the intents of the answer to the repair
FixOverlappingRanges ==
    /\ fixed_intents = <<>>
    /\ fixed_intents' = fix_overlapping_ranges(raw_intents)
    /\ UNCHANGED <<raw_intents, genVars, execVars, diagVars, engVars,
                   callVars, runVars, ioVars, parseVars>>

NextFix == FixOverlappingRanges

SpecFix == InitFix /\ [][NextFix]_vars

\* the lines intent k claims in file p by line ranges
ClaimedLines(discovered, k, p) ==
    UNION {UNION {lr.start..lr.end :
                     lr \in {discovered[k].files[m].line_ranges[j] :
                                j \in 1..Len(discovered[k].files[m].line_ranges)}} :
              m \in {m \in 1..Len(discovered[k].files) :
                        /\ discovered[k].files[m].path = p
                        /\ ~discovered[k].files[m].is_entire_file}}

\* the intents that claim line n of file p
Claimants(discovered, n, p) ==
    {k \in 1..Len(discovered) : n \in ClaimedLines(discovered, k, p)}

\* the first intent of a line: the one whose range holding the line comes
\* first by start line (the earlier intent of the answer on equal starts)
FirstClaimant(discovered, n, p) ==
    LET entries == sort_by_start(file_ranges(discovered, p))
        holds(i) == entries[i][3] <= n /\ n <= entries[i][4]
        i == CHOOSE i \in 1..Len(entries) :
                 holds(i) /\ \A j \in 1..(i - 1) : ~holds(j)
    IN  entries[i][1] + 1

\* after the repair no line of a file is held by two intents
NoSharedLine ==
    \A p \in FixPaths : \A n \in 1..MaxFixLine :
        Cardinality(Claimants(fixed_intents, n, p)) <= 1

\* a line two intents claimed is held by its first intent after the repair
SharedStaysWithFirst ==
    \A p \in FixPaths : \A n \in 1..MaxFixLine :
        Cardinality(Claimants(raw_intents, n, p)) >= 2
            => FirstClaimant(raw_intents, n, p)
                   \in Claimants(fixed_intents, n, p)

\* a line one intent alone claimed is still held by it after the repair
SoleClaimKept ==
    \A p \in FixPaths : \A n \in 1..MaxFixLine :
        \A k \in 1..Len(raw_intents) :
            Claimants(raw_intents, n, p) = {k}
                => k \in Claimants(fixed_intents, n, p)

\* C30: after _fix_overlapping_ranges no two different intents hold line
\* ranges of the same file (not claimed as entire file) that share a line;
\* a line claimed by two intents stays with the first intent, and no line
\* claimed by exactly one intent is removed from it.
C30_OverlapRepair ==
    fixed_intents # <<>>
        => NoSharedLine /\ SharedStaysWithFirst /\ SoleClaimKept

====
